---- MODULE Spec2Model ----
(***************************************************************************)
(* A model of the AST core (lang/ast/ast.go) and of the type checker       *)
(* (lang/check/type.go).  The AST is a table of uniform nodes indexed by   *)
(* node id (a pointer); 0 is the nil pointer.  The checker's methods are   *)
(* recursive operators over a checker-state record; one action applies one *)
(* top-level call of tcheckVars or tcheckStatement to a body statement.    *)
(***************************************************************************)
EXTENDS Integers, Sequences, FiniteSets, TLC

(***************************************************************************)
(* Token IDs (package token, the interface of spec section 6).  An ID is a *)
(* category, a key, and for numeric literals the literal's text.           *)
(***************************************************************************)
ID(cat, key) == [cat |-> cat, key |-> key, text |-> <<>>]

Zero == ID("none", "")

Ident(name) == ID("ident", name)

Lit(text) == [cat |-> "lit", key |-> "", text |-> text]

UnaryOp(key) == ID("unary", key)

BinaryOp(key) == ID("binary", key)

AssociativeOp(key) == ID("assoc", key)

IDTrue == ID("keyword", "true")

IDFalse == ID("keyword", "false")

IDUnderscore == ID("keyword", "_")

IDThis == ID("keyword", "this")

IDBool == ID("type", "bool")

IDBuf1 == ID("type", "buf1")

IDU8 == ID("numtype", "u8")

IDU32 == ID("numtype", "u32")

IDDoubleZ == ID("type", "double_z")

IDPtr == ID("decorator", "ptr")

IDOpenParen == ID("shape", "(")

IDOpenBracket == ID("shape", "[")

IDColon == ID("shape", ":")

IDDot == ID("shape", ".")

IDIn == Ident("in")

IDOut == Ident("out")

IDSrc == Ident("src")

IDReadU8 == Ident("read_u8")

IDLowBits == Ident("low_bits")

IDBreak == ID("keyword", "break")

IDContinue == ID("keyword", "continue")

IDEq == ID("assign", "=")

IDPlusEq == ID("assign", "+=")

IDShiftLEq == ID("assign", "<<=")

IDShiftREq == ID("assign", ">>=")

IDAssert == ID("keyword", "assert")

IsNumLiteral(id) == id.cat = "lit"

IsIdent(id) == id.cat = "ident"

IDIsNumType(id) == id.cat = "numtype"

\* id.Flags() & (FlagsUnaryOp | FlagsBinaryOp | FlagsAssociativeOp)
OpFlags(id) == IF id.cat \in {"unary", "binary", "assoc"} THEN id.cat ELSE "0"

(***************************************************************************)
(* Nodes (ast.go).  flags is the 4-bit bitset of ast.Flags.                *)
(***************************************************************************)
FlagsImpure == 1

FlagsSuspendible == 2

FlagsPublic == 4

FlagsTypeChecked == 8

\* The nil pointer.
Nil == 0

\* The advisory limit of an Expr's recursion depth.  ast.go sets it to 255; the
\* model scales it down, as a bound, so that expressions nested deeper than the
\* limit stay small.  The checker only ever compares a depth with it.
MaxExprDepth == 7

\* The advisory limit of a TypeExpr's recursion depth.
MaxTypeExprDepth == 63

RawNode(kind, flags, id0, id1, lhs, mhs, rhs, list0, list1) ==
    [kind |-> kind, flags |-> flags, id0 |-> id0, id1 |-> id1,
     lhs |-> lhs, mhs |-> mhs, rhs |-> rhs, list0 |-> list0, list1 |-> list1]

NewExpr(flags, operator, nameLiteralSelector, lhs, mhs, rhs, args) ==
    RawNode("KExpr", flags, operator, nameLiteralSelector, lhs, mhs, rhs, args, <<>>)

NewAssert(keyword, condition, reason, args) ==
    RawNode("KAssert", 0, keyword, reason, Nil, Nil, condition, args, <<>>)

NewArg(name, value) ==
    RawNode("KArg", 0, Zero, name, Nil, Nil, value, <<>>, <<>>)

NewAssign(operator, lhs, rhs) ==
    RawNode("KAssign", 0, operator, Zero, lhs, Nil, rhs, <<>>, <<>>)

NewVar(name, xType, value) ==
    RawNode("KVar", 0, Zero, name, xType, Nil, value, <<>>, <<>>)

NewField(name, xType, defaultValue) ==
    RawNode("KField", 0, Zero, name, xType, Nil, defaultValue, <<>>, <<>>)

NewWhile(label, condition, asserts, body) ==
    RawNode("KWhile", 0, Zero, label, condition, Nil, Nil, asserts, body)

NewIf(condition, elseIf, bodyIfTrue, bodyIfFalse) ==
    RawNode("KIf", 0, Zero, Zero, condition, Nil, elseIf, bodyIfTrue, bodyIfFalse)

NewReturn(value) ==
    RawNode("KReturn", 0, Zero, Zero, value, Nil, Nil, <<>>, <<>>)

NewJump(keyword, label) ==
    RawNode("KJump", 0, keyword, label, Nil, Nil, Nil, <<>>, <<>>)

NewTypeExpr(pkgOrDec, name, arrayLengthMin, max, inner) ==
    RawNode("KTypeExpr", 0, pkgOrDec, name, arrayLengthMin, max, inner, <<>>, <<>>)

NewFunc(flags, receiver, name, in, out, asserts, body) ==
    RawNode("KFunc", flags, receiver, name, in, Nil, out, asserts, body)

NewStruct(flags, name, fields) ==
    RawNode("KStruct", flags, Zero, name, Nil, Nil, Nil, fields, <<>>)

NewUse(path) ==
    RawNode("KUse", 0, Zero, path, Nil, Nil, Nil, <<>>, <<>>)

NewFile(topLevelDecls) ==
    RawNode("KFile", 0, Zero, Zero, Nil, Nil, Nil, topLevelDecls, <<>>)

\* n.flags&FlagsTypeChecked != 0
TypeChecked(f) == (f \div FlagsTypeChecked) % 2 = 1

\* Faulty variant: the flag is assigned, not or-ed in.
SetTypeCheckedOnly(f) == FlagsTypeChecked

\* n.flags |= FlagsTypeChecked
SetTypeChecked(f) == IF TypeChecked(f) THEN f ELSE f + FlagsTypeChecked

(***************************************************************************)
(* Building trees.  A fragment is a sequence of nodes whose first element  *)
(* is the root and whose child references are positions in the fragment;   *)
(* the empty fragment is a nil child.  This is what the parser does with   *)
(* the constructors: it builds children first and hands their pointers to  *)
(* the parent's constructor.                                               *)
(***************************************************************************)
ShiftRef(r, k) == IF r = Nil THEN Nil ELSE r + k

ShiftNode(nd, k) ==
    [nd EXCEPT !.lhs = ShiftRef(@, k), !.mhs = ShiftRef(@, k), !.rhs = ShiftRef(@, k),
               !.list0 = [i \in DOMAIN @ |-> @[i] + k],
               !.list1 = [i \in DOMAIN @ |-> @[i] + k]]

Shift(frag, k) == [i \in DOMAIN frag |-> ShiftNode(frag[i], k)]

Ref(frag, o) == IF frag = <<>> THEN Nil ELSE o + 1

RECURSIVE Roots(_, _)
Roots(fs, o) ==
    IF fs = <<>> THEN <<>> ELSE <<o + 1>> \o Roots(Tail(fs), o + Len(Head(fs)))

RECURSIVE Flatten(_, _)
Flatten(fs, o) ==
    IF fs = <<>> THEN <<>> ELSE Shift(Head(fs), o) \o Flatten(Tail(fs), o + Len(Head(fs)))

RECURSIVE SumLen(_)
SumLen(fs) == IF fs = <<>> THEN 0 ELSE Len(Head(fs)) + SumLen(Tail(fs))

Frag(mk(_, _, _, _, _), l, m, r, a, b) ==
    LET ol == 1
        om == ol + Len(l)
        or == om + Len(m)
        oa == or + Len(r)
        ob == oa + SumLen(a)
    IN  <<mk(Ref(l, ol), Ref(m, om), Ref(r, or), Roots(a, oa), Roots(b, ob))>>
            \o Shift(l, ol) \o Shift(m, om) \o Shift(r, or)
            \o Flatten(a, oa) \o Flatten(b, ob)

ExprF(flags, op, id1, l, m, r, args) ==
    Frag(LAMBDA pl, pm, pr, pa, pb: NewExpr(flags, op, id1, pl, pm, pr, pa), l, m, r, args, <<>>)

LeafF(id1) == ExprF(0, Zero, id1, <<>>, <<>>, <<>>, <<>>)

UnaryF(op, r) == ExprF(0, op, Zero, <<>>, <<>>, r, <<>>)

BinaryF(op, l, r) == ExprF(0, op, Zero, l, <<>>, r, <<>>)

DotF(l, sel) == ExprF(0, IDDot, sel, l, <<>>, <<>>, <<>>)

CallF(flags, callee, args) == ExprF(flags, IDOpenParen, Zero, callee, <<>>, <<>>, args)

ArgF(name, value) ==
    Frag(LAMBDA pl, pm, pr, pa, pb: NewArg(name, pr), <<>>, <<>>, value, <<>>, <<>>)

TypeExprF(pkgOrDec, name, min, max, inner) ==
    Frag(LAMBDA pl, pm, pr, pa, pb: NewTypeExpr(pkgOrDec, name, pl, pm, pr),
         min, max, inner, <<>>, <<>>)

AssertF(condition, args) ==
    Frag(LAMBDA pl, pm, pr, pa, pb: NewAssert(IDAssert, pr, Zero, pa),
         <<>>, <<>>, condition, args, <<>>)

AssignF(op, l, r) ==
    Frag(LAMBDA pl, pm, pr, pa, pb: NewAssign(op, pl, pr), l, <<>>, r, <<>>, <<>>)

VarF(name, xType, value) ==
    Frag(LAMBDA pl, pm, pr, pa, pb: NewVar(name, pl, pr), xType, <<>>, value, <<>>, <<>>)

FieldF(name, xType) ==
    Frag(LAMBDA pl, pm, pr, pa, pb: NewField(name, pl, pr), xType, <<>>, <<>>, <<>>, <<>>)

WhileF(label, condition, asserts, body) ==
    Frag(LAMBDA pl, pm, pr, pa, pb: NewWhile(label, pl, pa, pb),
         condition, <<>>, <<>>, asserts, body)

IfF(condition, elseIf, bodyIfTrue, bodyIfFalse) ==
    Frag(LAMBDA pl, pm, pr, pa, pb: NewIf(pl, pr, pa, pb),
         condition, <<>>, elseIf, bodyIfTrue, bodyIfFalse)

ReturnF(value) ==
    Frag(LAMBDA pl, pm, pr, pa, pb: NewReturn(pl), value, <<>>, <<>>, <<>>, <<>>)

JumpF(keyword, label) == <<NewJump(keyword, label)>>

StructF(flags, name, fields) ==
    Frag(LAMBDA pl, pm, pr, pa, pb: NewStruct(flags, name, pa),
         <<>>, <<>>, <<>>, fields, <<>>)

FuncF(flags, name, in, out, asserts, body) ==
    Frag(LAMBDA pl, pm, pr, pa, pb: NewFunc(flags, Zero, name, pl, pr, pa, pb),
         in, <<>>, out, asserts, body)

(***************************************************************************)
(* Programs: every AST starts with the checker's global type singletons    *)
(* and the synthesized type of the in-parameter, followed by one Func.     *)
(***************************************************************************)
TypeExprBool == 1

TypeExprIdeal == 2

TypeExprU8 == 3

TypeExprIn == 4

FuncNode == 5

Prelude ==
    <<NewTypeExpr(Zero, IDBool, Nil, Nil, Nil),
      NewTypeExpr(Zero, IDDoubleZ, Nil, Nil, Nil),
      NewTypeExpr(Zero, IDU8, Nil, Nil, Nil),
      NewTypeExpr(Zero, IDIn, Nil, Nil, Nil)>>

InStructF == StructF(0, IDIn, <<FieldF(IDSrc, TypeExprF(Zero, IDBuf1, <<>>, <<>>, <<>>))>>)

OutStructF == StructF(0, IDOut, <<>>)

Program(flags, body) ==
    Prelude \o Shift(FuncF(flags, Ident("f"), InStructF, OutStructF, <<>>, body), Len(Prelude))

TrueF == LeafF(IDTrue)

NumF(text) == LeafF(Lit(text))

U8F == TypeExprF(Zero, IDU8, <<>>, <<>>, <<>>)

BoolF == TypeExprF(Zero, IDBool, <<>>, <<>>, <<>>)

UnknownF == LeafF(Ident("undeclared"))

\* A chain of n unary operators over a leaf: the leaf is nested n levels deep.
UnaryChainF(op, n, leaf) ==
    [i \in 1..n |-> NewExpr(0, op, Zero, Nil, Nil, i + 1, <<>>)] \o Shift(leaf, n)

(***************************************************************************)
(* Bounds of the inputs.                                                   *)
(***************************************************************************)
\* While statements nest at most MaxNest deep in the jump programs.
MaxNest == 2

\* An if / else-if chain has at most MaxChain clauses.
MaxChain == 2

\* The checker is run at most MaxRuns times over one AST.
MaxRuns == 2

\* Expression chains are built DeepSlack levels around MaxExprDepth.
DeepSlack == 1

Labels == {Zero, Ident("a"), Ident("b")}

SeqsUpTo(S, n) == UNION {[1..k -> S] : k \in 1..n}

(***************************************************************************)
(* Jump programs: While statements nested as deep as there are labels, a   *)
(* jump in the innermost body and one after every inner While.             *)
(*   bad = "cond": the innermost condition is not boolean                  *)
(*   bad = "assert": the innermost While's assert is not boolean           *)
(*   bad = "body": a statement before the innermost jump fails             *)
(***************************************************************************)
RECURSIVE NestF(_, _, _, _, _)
NestF(labels, i, kw, jl, bad) ==
    LET innermost == i = Len(labels)
        other == IF kw = IDBreak THEN IDContinue ELSE IDBreak
        cond == IF innermost /\ bad = "cond" THEN NumF(<<"1">>) ELSE TrueF
        asserts == IF innermost
                   THEN <<AssertF(IF bad = "assert" THEN NumF(<<"1">>) ELSE TrueF,
                                  <<ArgF(Ident("n"), NumF(<<"7">>))>>)>>
                   ELSE <<>>
        body == IF innermost
                THEN (IF bad = "body" THEN <<ReturnF(UnknownF)>> ELSE <<>>)
                         \o <<JumpF(kw, jl)>>
                ELSE <<NestF(labels, i + 1, kw, jl, bad), JumpF(other, jl)>>
    IN  WhileF(labels[i], cond, asserts, body)

JumpPrograms ==
    {Program(0, <<NestF(labels, 1, kw, jl, bad)>>) :
        labels \in SeqsUpTo(Labels, MaxNest), kw \in {IDBreak, IDContinue},
        jl \in Labels, bad \in {"none", "cond", "assert", "body"}}

(***************************************************************************)
(* If / Var programs: "var x u8 = 1", an if / else-if chain, and a While   *)
(* with a Var in its body.  Every clause of the chain is one of            *)
(*   "empty": true condition, empty body                                   *)
(*   "var":   true condition, a Var with a fresh name in the body          *)
(*   "dup":   true condition, a second "var x" in the body                 *)
(*   "cond":  a condition that is not boolean                              *)
(*   "body":  true condition, a failing statement in the body              *)
(* and the last clause has an else-body holding a fresh Var if withElse.   *)
(***************************************************************************)
ClauseKinds == {"empty", "var", "dup", "cond", "body"}

FreshName(i) == Ident(<<"c1", "c2", "c3", "c4", "c5">>[i])

RECURSIVE ChainF(_, _, _)
ChainF(clauses, i, withElse) ==
    LET k == clauses[i]
        last == i = Len(clauses)
        cond == IF k = "cond" THEN NumF(<<"1">>) ELSE TrueF
        body == CASE k = "var" -> <<VarF(FreshName(i), U8F, NumF(<<"2">>))>>
                  [] k = "dup" -> <<VarF(Ident("x"), U8F, <<>>)>>
                  [] k = "body" -> <<ReturnF(UnknownF)>>
                  [] OTHER -> <<>>
    IN  IfF(cond,
            IF last THEN <<>> ELSE ChainF(clauses, i + 1, withElse),
            body,
            IF last /\ withElse THEN <<VarF(Ident("e"), BoolF, <<>>)>> ELSE <<>>)

IfPrograms ==
    {Program(0, <<VarF(Ident("x"), U8F, NumF(<<"1">>)),
                  ChainF(clauses, 1, withElse),
                  WhileF(Zero, TrueF, <<>>, <<VarF(wv, U8F, <<>>)>>)>>) :
        clauses \in SeqsUpTo(ClauseKinds, MaxChain), withElse \in BOOLEAN,
        wv \in {Ident("w"), Ident("x")}}

(***************************************************************************)
(* Expression programs: "var x u8", "var b bool", "var y u32" and one      *)
(* statement holding the expression.                                       *)
(***************************************************************************)
XF == LeafF(Ident("x"))

BF == LeafF(Ident("b"))

YF == LeafF(Ident("y"))

FalseF == LeafF(IDFalse)

U32F == TypeExprF(Zero, IDU32, <<>>, <<>>, <<>>)

ExprProgram(stmt) ==
    Program(FlagsPublic,
            <<VarF(Ident("x"), U8F, <<>>), VarF(Ident("b"), BoolF, <<>>),
              VarF(Ident("y"), U32F, <<>>), stmt>>)

Operands == {NumF(<<"1">>), NumF(<<"0">>), TrueF, XF, BF, YF, UnknownF}

Leaves == Operands \cup {NumF(<<"0", "x", "1", "F">>), NumF(<<"0", "9">>), FalseF,
                         LeafF(IDUnderscore), LeafF(IDThis)}

UnaryKeys == {"+", "-", "not"}

BinaryKeys == {"+", "-", "*", "/", "<<", ">>", "&", "&^", "|", "^",
               "!=", "<", "<=", "==", ">=", ">", "and", "or"}

\* The types on the right of a cast.
CastTypes ==
    {U8F, U32F, BoolF,
     TypeExprF(Zero, IDU8, NumF(<<"0">>), NumF(<<"7">>), <<>>),
     TypeExprF(Zero, IDU8, <<>>, XF, <<>>),
     TypeExprF(Zero, IDU8, <<>>, UnknownF, <<>>),
     TypeExprF(Zero, Ident("nosuch"), <<>>, <<>>, <<>>),
     TypeExprF(IDPtr, Zero, <<>>, <<>>, U8F),
     TypeExprF(IDOpenBracket, Zero, NumF(<<"2">>), <<>>, U8F),
     TypeExprF(IDOpenBracket, Zero, XF, <<>>, U8F),
     TypeExprF(Ident("pkg"), Ident("t"), <<>>, <<>>, <<>>)}

InSrcF == DotF(LeafF(IDIn), IDSrc)

ReadU8F(flags) == CallF(flags, DotF(InSrcF, IDReadU8), <<>>)

LowBitsF(flags, foo, arg) ==
    CallF(flags, DotF(foo, IDLowBits), <<ArgF(Ident("n"), arg)>>)

CallsAndSelectors ==
    {ReadU8F(fl) : fl \in {0, FlagsImpure, FlagsImpure + FlagsSuspendible}}
        \cup {LowBitsF(fl, foo, arg) :
                 fl \in {0, FlagsImpure},
                 foo \in {XF, UnknownF, ReadU8F(FlagsImpure + FlagsSuspendible)},
                 arg \in {NumF(<<"1">>), UnknownF}}
        \cup {InSrcF, DotF(LeafF(IDIn), Ident("nosuch")), DotF(LeafF(IDOut), IDSrc),
              DotF(XF, IDSrc), DotF(InSrcF, Ident("anything")),
              ExprF(0, IDOpenBracket, Zero, XF, <<>>, NumF(<<"0">>), <<>>),
              ExprF(0, IDColon, Zero, XF, NumF(<<"0">>), NumF(<<"1">>), <<>>),
              ExprF(0, AssociativeOp("+"), Zero, <<>>, <<>>, <<>>, <<XF, XF>>),
              UnaryF(UnaryOp("unknown"), XF)}

Exprs ==
    Leaves
        \cup {UnaryF(UnaryOp(k), e) : k \in UnaryKeys, e \in Leaves}
        \cup {BinaryF(BinaryOp(k), l, r) : k \in BinaryKeys, l \in Operands, r \in Operands}
        \cup {BinaryF(BinaryOp("as"), e, typ) : e \in Operands, typ \in CastTypes}
        \cup CallsAndSelectors

AssignKeys == {IDEq, IDPlusEq, IDShiftLEq, IDShiftREq}

Statements ==
    {ReturnF(e) : e \in Exprs \cup {<<>>}}
        \cup {VarF(Ident("v"), U8F, e) : e \in Leaves}
        \cup {AssignF(op, l, r) : op \in AssignKeys, l \in {XF, BF, YF},
                                  r \in Operands}
        \cup {AssertF(c, <<ArgF(Ident("n"), a)>>) :
                 c \in {TrueF, XF, UnknownF}, a \in {NumF(<<"1">>), UnknownF}}
        \cup {<<RawNode("KInvalid", 0, Zero, Zero, Nil, Nil, Nil, <<>>, <<>>)>>}

ExprPrograms == {ExprProgram(stmt) : stmt \in Statements}

(***************************************************************************)
(* Deep programs: "return e" with e nested around MaxExprDepth levels.     *)
(***************************************************************************)
DeepLengths == (MaxExprDepth - DeepSlack)..(MaxExprDepth + 1 + DeepSlack)

\* Half of a nesting that the limit forbids.
DeepHalf == (MaxExprDepth + 1) \div 2 + DeepSlack

RECURSIVE LowBitsChainF(_)
LowBitsChainF(n) ==
    IF n = 0 THEN XF ELSE LowBitsF(0, LowBitsChainF(n - 1), NumF(<<"1">>))

DeepExprs ==
    {UnaryChainF(UnaryOp("-"), n, NumF(<<"1">>)) : n \in DeepLengths}
        \cup {UnaryChainF(UnaryOp("not"), n, TrueF) : n \in DeepLengths}
        \cup {UnaryChainF(UnaryOp("+"), n, XF) : n \in DeepLengths}
        \cup {BinaryF(BinaryOp("+"), NumF(<<"2">>),
                      UnaryChainF(UnaryOp("-"), n - 1, NumF(<<"1">>))) : n \in DeepLengths}
        \cup {BinaryF(BinaryOp("=="), UnaryChainF(UnaryOp("-"), n - 1, NumF(<<"1">>)),
                      XF) : n \in DeepLengths}
        \cup {UnaryChainF(UnaryOp("-"), DeepHalf,
                          BinaryF(BinaryOp("as"), NumF(<<"1">>),
                                  TypeExprF(Zero, IDU8, <<>>,
                                            UnaryChainF(UnaryOp("-"), DeepHalf, NumF(<<"1">>)),
                                            <<>>))),
              LowBitsChainF(DeepHalf)}

DeepPrograms == {ExprProgram(ReturnF(e)) : e \in DeepExprs}

(***************************************************************************)
(* Constant programs: "return l op r" with both operands constant.         *)
(***************************************************************************)
\* Small constants; the negative ones come from unary minus and subtraction.
SmallConsts ==
    {NumF(<<"0">>), NumF(<<"1">>), NumF(<<"2">>), NumF(<<"7">>),
     UnaryF(UnaryOp("-"), NumF(<<"1">>)),
     UnaryF(UnaryOp("-"), NumF(<<"7">>)),
     BinaryF(BinaryOp("-"), NumF(<<"2">>), NumF(<<"5">>)),
     UnaryF(UnaryOp("+"), NumF(<<"0", "x", "0", "C">>))}

\* Shift counts at the ends of the accepted range.
WideCounts ==
    {NumF(<<"2", "0">>), NumF(<<"0", "x", "F", "F", "F", "F">>),
     NumF(<<"0", "x", "1", "0", "0", "0", "0">>),
     BinaryF(BinaryOp("+"), NumF(<<"6", "5", "5", "3", "5">>), NumF(<<"1">>))}

\* Boolean constants: literals, a negation and comparisons.
BoolConsts ==
    {TrueF, FalseF, UnaryF(UnaryOp("not"), TrueF),
     BinaryF(BinaryOp("<"), NumF(<<"1">>), NumF(<<"2">>)),
     BinaryF(BinaryOp("=="), NumF(<<"1">>), NumF(<<"2">>))}

ConstExprs ==
    {BinaryF(BinaryOp(k), l, r) : k \in BinaryKeys, l \in SmallConsts, r \in SmallConsts}
        \cup {BinaryF(BinaryOp(">>"), l, r) : l \in SmallConsts, r \in WideCounts}
        \cup {BinaryF(BinaryOp("<<"), l, r) :
                 l \in {NumF(<<"0">>), BinaryF(BinaryOp("-"), NumF(<<"2">>), NumF(<<"2">>))},
                 r \in WideCounts}
        \cup {BinaryF(BinaryOp("<<"), l, NumF(<<"2", "0">>)) : l \in SmallConsts}
        \cup {BinaryF(BinaryOp(k), l, r) :
                 k \in {"and", "or", "==", "!="}, l \in BoolConsts, r \in BoolConsts}
        \cup {BinaryF(BinaryOp("/"), l, r) :
                 l \in {NumF(<<"1">>), XF},
                 r \in {XF, YF, BinaryF(BinaryOp("-"), XF, XF),
                        BinaryF(BinaryOp("as"), NumF(<<"0">>), U8F),
                        BinaryF(BinaryOp("-"), NumF(<<"1">>), NumF(<<"1">>)),
                        BinaryF(BinaryOp("/"), NumF(<<"1">>), NumF(<<"0">>))}}
        \cup {BinaryF(BinaryOp("/"), BinaryF(BinaryOp("/"), NumF(<<"1">>), NumF(<<"0">>)), r) :
                 r \in {XF, NumF(<<"1">>)}}

ConstPrograms == {ExprProgram(ReturnF(e)) : e \in ConstExprs}

(***************************************************************************)
(* Assignment programs: "var x u8", "var z u8[0..7]", "var y u32",         *)
(* "var b bool" and one assignment.                                        *)
(***************************************************************************)
U8RefinedF == TypeExprF(Zero, IDU8, NumF(<<"0">>), NumF(<<"7">>), <<>>)

ZF == LeafF(Ident("z"))

AssignSides ==
    {XF, ZF, YF, BF, NumF(<<"1">>), TrueF, UnknownF,
     BinaryF(BinaryOp("as"), XF, U8RefinedF),
     BinaryF(BinaryOp("+"), NumF(<<"1">>), NumF(<<"2">>)),
     BinaryF(BinaryOp("=="), XF, ZF)}

AssignPrograms ==
    {Program(0, <<VarF(Ident("x"), U8F, <<>>), VarF(Ident("z"), U8RefinedF, <<>>),
                  VarF(Ident("y"), U32F, <<>>), VarF(Ident("b"), BoolF, <<>>),
                  AssignF(op, l, r)>>) :
        op \in AssignKeys, l \in AssignSides, r \in AssignSides}

(***************************************************************************)
(* Programs to walk: between them their nodes use every child slot, empty  *)
(* and not.                                                                *)
(***************************************************************************)
WalkPrograms ==
    {Program(0, <<VarF(Ident("x"), U8F, NumF(<<"1">>)),
                  ChainF(<<"var", "body">>, 1, TRUE),
                  WhileF(Ident("a"), TrueF,
                         <<AssertF(TrueF, <<ArgF(Ident("n"), NumF(<<"7">>))>>)>>,
                         <<JumpF(IDBreak, Zero)>>)>>),
     ExprProgram(ReturnF(ExprF(0, IDColon, Zero, XF, NumF(<<"0">>), NumF(<<"1">>), <<>>))),
     ExprProgram(ReturnF(LowBitsF(0, XF, NumF(<<"1">>)))),
     ExprProgram(AssignF(IDEq, XF,
                         BinaryF(BinaryOp("as"), XF,
                                 TypeExprF(IDOpenBracket, Zero, NumF(<<"2">>), <<>>, U8F))))}

Programs ==
    JumpPrograms \cup IfPrograms \cup ExprPrograms \cup DeepPrograms \cup ConstPrograms
        \cup AssignPrograms \cup WalkPrograms

VARIABLES ast, pc, idx, run, flags, mType, constValue, jumpTarget, hasBreak,
          hasContinue, localVars, jumpTargets, err, exprCalls, stmtCalls,
          walk, made

vars == <<ast, pc, idx, run, flags, mType, constValue, jumpTarget, hasBreak,
          hasContinue, localVars, jumpTargets, err, exprCalls, stmtCalls,
          walk, made>>

Nodes == DOMAIN ast

(***************************************************************************)
(* Errors (the fmt.Errorf messages of type.go, without their arguments).   *)
(***************************************************************************)
NoError == ""

ErrDuplicateVar == "check: duplicate var"

ErrNoJumpTarget == "no matching while statement"

ErrUncheckedTypeExpr == "check: internal error: unchecked type expression"

ErrIfNotBool == "check: if condition does not have a boolean type"

ErrWhileNotBool == "check: for-loop condition does not have a boolean type"

ErrAssertNotBool == "check: assert condition does not have a boolean type"

ErrUnrecognizedKind == "check: unrecognized ast.Kind for tcheckStatement"

ErrCannotAssign == "check: cannot assign"

ErrAssigneeNotNumeric == "check: assignment: assignee does not have numeric type"

ErrShiftNotNumeric == "check: assignment: shift does not have numeric type"

ErrAssignIncompatible == "check: assignment: do not have compatible types"

ErrTooDeep == "check: expression recursion depth too large"

ErrUnrecognizedExpr == "check: unrecognized token.Key for tcheckExpr"

ErrInvalidLiteral == "check: invalid numeric literal"

ErrUnrecognizedIdent == "check: unrecognized identifier"

ErrUnrecognizedOther == "check: unrecognized token.Key for tcheckExprOther"

ErrDotDecorator == "check: unsupported package-or-decorator for tcheckDot"

ErrNoStruct == "check: no struct type found"

ErrNoField == "check: no field found in struct type"

ErrUnaryNotNumeric == "check: unary: does not have a numeric type"

ErrUnaryNotBool == "check: unary: does not have a boolean type"

ErrUnrecognizedUnary == "check: unrecognized token.Key for tcheckExprUnaryOp"

ErrCannotConvert == "check: cannot convert expression"

ErrBinaryNotNumeric == "check: binary: does not have a numeric type"

ErrBinaryNotBool == "check: binary: does not have a boolean type"

ErrBinaryIncompatible == "check: binary: do not have compatible types"

ErrShiftIdeal == "check: binary: cannot shift an ideal number by a non-ideal number"

ErrDivByZero == "check: division by zero in const expression"

ErrShiftRange == "check: shift out of range in const expression"

ErrUnrecognizedAssociative == "check: unrecognized token.Key for tcheckExprAssociativeOp"

ErrTypeTooDeep == "check: type expression recursion depth too large"

ErrNotConstant == "check: is not constant"

ErrNotAType == "check: is not a type"

ErrUnrecognizedTypeExpr == "check: unrecognized node for tcheckTypeExpr"

Fail(s, e) == [s EXCEPT !.err = e]

(***************************************************************************)
(* Accessors of ast.go.                                                    *)
(***************************************************************************)
SubLists(n) == <<ast[n].list0, ast[n].list1>>

SubNodes(n) == <<ast[n].lhs, ast[n].mhs, ast[n].rhs>>

\* (*TypeExpr).IsNumType
IsNumType(typ) == ast[typ].id0 = Zero /\ IDIsNumType(ast[typ].id1)

\* (*TypeExpr).Bounds
Bounds(typ) == <<ast[typ].lhs, ast[typ].mhs>>

Suspendible(f) == (f \div FlagsSuspendible) % 2 = 1

Impure(f) == f % 2 = 1

(***************************************************************************)
(* Helpers of package check and package ast that type.go calls.            *)
(***************************************************************************)
numeric(typ) == typ = TypeExprIdeal \/ IsNumType(typ)

RECURSIVE ExprEq(_, _)
ExprEq(x, y) ==
    IF x = Nil \/ y = Nil THEN x = y
    ELSE /\ ast[x].id0 = ast[y].id0
         /\ ast[x].id1 = ast[y].id1
         /\ Len(ast[x].list0) = Len(ast[y].list0)
         /\ ExprEq(ast[x].lhs, ast[y].lhs)
         /\ ExprEq(ast[x].mhs, ast[y].mhs)
         /\ ExprEq(ast[x].rhs, ast[y].rhs)

RECURSIVE TypeEq(_, _, _)
TypeEq(x, y, ignoreRefinements) ==
    IF x = Nil \/ y = Nil THEN x = y
    ELSE /\ ast[x].id0 = ast[y].id0
         /\ ast[x].id1 = ast[y].id1
         /\ \/ ignoreRefinements /\ ast[x].id0 # IDOpenBracket
            \/ ExprEq(ast[x].lhs, ast[y].lhs) /\ ExprEq(ast[x].mhs, ast[y].mhs)
         /\ TypeEq(ast[x].rhs, ast[y].rhs, ignoreRefinements)

Eq(x, y) == TypeEq(x, y, FALSE)

EqIgnoringRefinements(x, y) == TypeEq(x, y, TRUE)

zero == 0

one == 1

ffff == 65535

btoi(b) == IF b THEN one ELSE zero

neg(i) == 0 - i

\* A *big.Int is nil (<<>>) or holds a value (<<v>>).
NilInt == <<>>

Big(v) == <<v>>

(***************************************************************************)
(* math/big: SetString with base 0, and the arithmetic of the constant     *)
(* folder.                                                                 *)
(***************************************************************************)
DigitVal(c) ==
    CASE c = "0" -> 0 [] c = "1" -> 1 [] c = "2" -> 2 [] c = "3" -> 3 [] c = "4" -> 4
      [] c = "5" -> 5 [] c = "6" -> 6 [] c = "7" -> 7 [] c = "8" -> 8 [] c = "9" -> 9
      [] c \in {"a", "A"} -> 10 [] c \in {"b", "B"} -> 11 [] c \in {"c", "C"} -> 12
      [] c \in {"d", "D"} -> 13 [] c \in {"e", "E"} -> 14 [] c \in {"f", "F"} -> 15
      [] OTHER -> 99

LitBase(text) ==
    IF Len(text) >= 2 /\ text[1] = "0" /\ text[2] \in {"x", "X"} THEN 16
    ELSE IF Len(text) >= 2 /\ text[1] = "0" /\ text[2] \in {"b", "B"} THEN 2
    ELSE IF Len(text) >= 2 /\ text[1] = "0" THEN 8
    ELSE 10

LitDigits(text) ==
    IF LitBase(text) \in {16, 2} THEN SubSeq(text, 3, Len(text))
    ELSE IF LitBase(text) = 8 THEN SubSeq(text, 2, Len(text))
    ELSE text

RECURSIVE DigitsValue(_, _, _)
DigitsValue(ds, base, acc) ==
    IF ds = <<>> THEN acc ELSE DigitsValue(Tail(ds), base, acc * base + DigitVal(Head(ds)))

\* z.SetString(s, 0): <<ok, value>>
SetString(text) ==
    LET base == LitBase(text)
        ds == LitDigits(text)
        ok == ds # <<>> /\ \A i \in DOMAIN ds : DigitVal(ds[i]) < base
    IN  <<ok, IF ok THEN DigitsValue(ds, base, 0) ELSE 0>>

\* (*big.Int).Div is Euclidean division: the remainder is never negative.
BigDiv(l, r) == IF r > 0 THEN l \div r ELSE 0 - (l \div (0 - r))

RECURSIVE BigLsh(_, _)
BigLsh(l, r) == IF r = 0 \/ l = 0 THEN l ELSE BigLsh(2 * l, r - 1)

RECURSIVE BigRsh(_, _)
BigRsh(l, r) == IF r = 0 \/ l \in {0, -1} THEN l ELSE BigRsh(l \div 2, r - 1)

\* Bitwise operators on two's complement integers of unbounded width.
RECURSIVE BigBits(_, _, _)
BigBits(f, l, r) ==
    IF l \in {0, -1} /\ r \in {0, -1}
    THEN IF f[l = -1][r = -1] THEN -1 ELSE 0
    ELSE 2 * BigBits(f, l \div 2, r \div 2) + (IF f[l % 2 = 1][r % 2 = 1] THEN 1 ELSE 0)

BigAnd(l, r) == BigBits([x \in BOOLEAN |-> [y \in BOOLEAN |-> x /\ y]], l, r)

BigAndNot(l, r) == BigBits([x \in BOOLEAN |-> [y \in BOOLEAN |-> x /\ ~y]], l, r)

BigOr(l, r) == BigBits([x \in BOOLEAN |-> [y \in BOOLEAN |-> x \/ y]], l, r)

BigXor(l, r) == BigBits([x \in BOOLEAN |-> [y \in BOOLEAN |-> x # y]], l, r)

comparisonOps == {"!=", "<", "<=", "==", ">=", ">"}

(***************************************************************************)
(* The checker.  s is the checker's state: the annotations it has written  *)
(* on the AST, the per-function state, the error being returned, and the   *)
(* record of the calls made so far (exprCalls, stmtCalls).                 *)
(***************************************************************************)
RECURSIVE tcheckExpr(_, _, _)
RECURSIVE tcheckExprOther(_, _, _)
RECURSIVE tcheckDot(_, _, _)
RECURSIVE tcheckExprUnaryOp(_, _, _)
RECURSIVE tcheckExprBinaryOp(_, _, _)
RECURSIVE tcheckTypeExpr(_, _, _)
RECURSIVE tcheckArg(_, _, _)
RECURSIVE tcheckArgs(_, _, _, _)
RECURSIVE tcheckBounds(_, _, _)
RECURSIVE tcheckStatement(_, _)
RECURSIVE tcheckStatements(_, _, _)
RECURSIVE tcheckIfChain(_, _)
RECURSIVE tcheckVars(_, _)
RECURSIVE tcheckVarsList(_, _, _)

SetMType(s, n, typ) == [s EXCEPT !.mType[n] = typ]

SetConstValue(s, n, v) == [s EXCEPT !.constValue[n] = Big(v)]

MarkTypeChecked(s, n) == [s EXCEPT !.flags[n] = SetTypeChecked(@)]

isInSrcReadU8(n) ==
    /\ ast[n].id0 = IDDot /\ ast[n].id1 = IDReadU8
    /\ LET m == ast[n].lhs
       IN  /\ ast[m].id0 = IDDot /\ ast[m].id1 = IDSrc
           /\ LET o == ast[m].lhs IN ast[o].id0 = Zero /\ ast[o].id1 = IDIn

isLowBits(n) == ast[n].id0 = IDDot /\ ast[n].id1 = IDLowBits

\* Faulty variant: a shift count of 0xFFFF is out of range too.
setConstValueBinaryOpShiftBelow(s, n, l, r) ==
    LET key == ast[n].id0.key
    IN  CASE key = "+" -> SetConstValue(s, n, l + r)
          [] key = "-" -> SetConstValue(s, n, l - r)
          [] key = "*" -> SetConstValue(s, n, l * r)
          [] key = "/" -> IF r = zero THEN Fail(s, ErrDivByZero)
                          ELSE SetConstValue(s, n, BigDiv(l, r))
          [] key = "<<" -> IF r < zero \/ r >= ffff THEN Fail(s, ErrShiftRange)
                           ELSE SetConstValue(s, n, BigLsh(l, r))
          [] key = ">>" -> IF r < zero \/ r >= ffff THEN Fail(s, ErrShiftRange)
                           ELSE SetConstValue(s, n, BigRsh(l, r))
          [] key = "&" -> SetConstValue(s, n, BigAnd(l, r))
          [] key = "&^" -> SetConstValue(s, n, BigAndNot(l, r))
          [] key = "|" -> SetConstValue(s, n, BigOr(l, r))
          [] key = "^" -> SetConstValue(s, n, BigXor(l, r))
          [] key = "!=" -> SetConstValue(s, n, btoi(l # r))
          [] key = "<" -> SetConstValue(s, n, btoi(l < r))
          [] key = "<=" -> SetConstValue(s, n, btoi(l <= r))
          [] key = "==" -> SetConstValue(s, n, btoi(l = r))
          [] key = ">=" -> SetConstValue(s, n, btoi(l >= r))
          [] key = ">" -> SetConstValue(s, n, btoi(l > r))
          [] key = "and" -> SetConstValue(s, n, btoi(l # zero /\ r # zero))
          [] key = "or" -> SetConstValue(s, n, btoi(l # zero \/ r # zero))
          [] OTHER -> s

\* Faulty variant: a division by zero stores a value before it fails.
setConstValueBinaryOpDivStores(s, n, l, r) ==
    LET key == ast[n].id0.key
    IN  CASE key = "+" -> SetConstValue(s, n, l + r)
          [] key = "-" -> SetConstValue(s, n, l - r)
          [] key = "*" -> SetConstValue(s, n, l * r)
          [] key = "/" -> IF r = zero THEN Fail(SetConstValue(s, n, zero), ErrDivByZero)
                          ELSE SetConstValue(s, n, BigDiv(l, r))
          [] key = "<<" -> IF r < zero \/ r > ffff THEN Fail(s, ErrShiftRange)
                           ELSE SetConstValue(s, n, BigLsh(l, r))
          [] key = ">>" -> IF r < zero \/ r > ffff THEN Fail(s, ErrShiftRange)
                           ELSE SetConstValue(s, n, BigRsh(l, r))
          [] key = "&" -> SetConstValue(s, n, BigAnd(l, r))
          [] key = "&^" -> SetConstValue(s, n, BigAndNot(l, r))
          [] key = "|" -> SetConstValue(s, n, BigOr(l, r))
          [] key = "^" -> SetConstValue(s, n, BigXor(l, r))
          [] key = "!=" -> SetConstValue(s, n, btoi(l # r))
          [] key = "<" -> SetConstValue(s, n, btoi(l < r))
          [] key = "<=" -> SetConstValue(s, n, btoi(l <= r))
          [] key = "==" -> SetConstValue(s, n, btoi(l = r))
          [] key = ">=" -> SetConstValue(s, n, btoi(l >= r))
          [] key = ">" -> SetConstValue(s, n, btoi(l > r))
          [] key = "and" -> SetConstValue(s, n, btoi(l # zero /\ r # zero))
          [] key = "or" -> SetConstValue(s, n, btoi(l # zero \/ r # zero))
          [] OTHER -> s

setConstValueBinaryOp(s, n, l, r) ==
    LET key == ast[n].id0.key
    IN  CASE key = "+" -> SetConstValue(s, n, l + r)
          [] key = "-" -> SetConstValue(s, n, l - r)
          [] key = "*" -> SetConstValue(s, n, l * r)
          [] key = "/" -> IF r = zero THEN Fail(s, ErrDivByZero)
                          ELSE SetConstValue(s, n, BigDiv(l, r))
          [] key = "<<" -> IF r < zero \/ r > ffff THEN Fail(s, ErrShiftRange)
                           ELSE SetConstValue(s, n, BigLsh(l, r))
          [] key = ">>" -> IF r < zero \/ r > ffff THEN Fail(s, ErrShiftRange)
                           ELSE SetConstValue(s, n, BigRsh(l, r))
          [] key = "&" -> SetConstValue(s, n, BigAnd(l, r))
          [] key = "&^" -> SetConstValue(s, n, BigAndNot(l, r))
          [] key = "|" -> SetConstValue(s, n, BigOr(l, r))
          [] key = "^" -> SetConstValue(s, n, BigXor(l, r))
          [] key = "!=" -> SetConstValue(s, n, btoi(l # r))
          [] key = "<" -> SetConstValue(s, n, btoi(l < r))
          [] key = "<=" -> SetConstValue(s, n, btoi(l <= r))
          [] key = "==" -> SetConstValue(s, n, btoi(l = r))
          [] key = ">=" -> SetConstValue(s, n, btoi(l >= r))
          [] key = ">" -> SetConstValue(s, n, btoi(l > r))
          [] key = "and" -> SetConstValue(s, n, btoi(l # zero /\ r # zero))
          [] key = "or" -> SetConstValue(s, n, btoi(l # zero \/ r # zero))
          [] OTHER -> s

tcheckExprAssociativeOp(s, n, depth) == Fail(s, ErrUnrecognizedAssociative)

\* The entry of exprCalls for one call of tcheckExpr: s0 on entry, s1 on return.
ExprCall(s0, s1, n, depth) ==
    [n |-> n, depth |-> depth, err |-> s1.err,
     tc0 |-> TypeChecked(s0.flags[n]), tc1 |-> TypeChecked(s1.flags[n]),
     mt0 |-> s0.mType[n], mt1 |-> s1.mType[n],
     cv0 |-> s0.constValue[n], cv1 |-> s1.constValue[n]]

\* Faulty variant: the node is marked before it is checked.
tcheckExprBodyMarkFirst(s, n, depth) ==
    IF depth > MaxExprDepth THEN Fail(s, ErrTooDeep)
    ELSE LET d == depth + 1
             fl == OpFlags(ast[n].id0)
             Switch(s0) ==
                 CASE fl = "0" -> tcheckExprOther(s0, n, d)
                   [] fl = "unary" -> tcheckExprUnaryOp(s0, n, d)
                   [] fl = "binary" -> tcheckExprBinaryOp(s0, n, d)
                   [] fl = "assoc" -> tcheckExprAssociativeOp(s0, n, d)
                   [] OTHER -> Fail(s0, ErrUnrecognizedExpr)
         IN  Switch(MarkTypeChecked(s, n))

tcheckExprBody(s, n, depth) ==
    IF depth > MaxExprDepth THEN Fail(s, ErrTooDeep)
    ELSE LET d == depth + 1
             fl == OpFlags(ast[n].id0)
             Checked(s1) == IF s1.err # NoError THEN s1 ELSE MarkTypeChecked(s1, n)
         IN  Checked(CASE fl = "0" -> tcheckExprOther(s, n, d)
                       [] fl = "unary" -> tcheckExprUnaryOp(s, n, d)
                       [] fl = "binary" -> tcheckExprBinaryOp(s, n, d)
                       [] fl = "assoc" -> tcheckExprAssociativeOp(s, n, d)
                       [] OTHER -> Fail(s, ErrUnrecognizedExpr))

tcheckExpr(s, n, depth) ==
    LET Returned(s1) == [s1 EXCEPT !.exprCalls = Append(@, ExprCall(s, s1, n, depth))]
    IN  Returned(tcheckExprBody(s, n, depth))

tcheckArg(s, n, depth) ==
    LET Checked(s1) == IF s1.err # NoError THEN s1 ELSE MarkTypeChecked(s1, n)
    IN  Checked(tcheckExpr(s, ast[n].rhs, depth))

\* for _, o := range n.Args() { tcheckArg(o.Arg(), depth) }
tcheckArgs(s, args, i, depth) ==
    IF i > Len(args) THEN s
    ELSE LET Checked(s1) == IF s1.err # NoError THEN s1
                            ELSE tcheckArgs(s1, args, i + 1, depth)
         IN  Checked(tcheckArg(s, args[i], depth))

tcheckExprOther(s, n, depth) ==
    LET id0 == ast[n].id0
        id1 == ast[n].id1
        lhs == ast[n].lhs
        foo == ast[lhs].lhs
        Literal(z) == IF ~z[1] THEN Fail(s, ErrInvalidLiteral)
                      ELSE SetMType(SetConstValue(s, n, z[2]), n, TypeExprIdeal)
        ReadU8(s1) == IF s1.err # NoError THEN s1 ELSE SetMType(s1, n, TypeExprU8)
        LowBitsArgs(s3) == IF s3.err # NoError THEN s3
                           ELSE SetMType(s3, n, s3.mType[foo])
        LowBits(s1) ==
            IF s1.err # NoError THEN s1
            ELSE LowBitsArgs(tcheckArgs(SetMType(MarkTypeChecked(s1, lhs), lhs, TypeExprU8),
                                        ast[n].list0, 1, depth))
    IN  CASE id0 = Zero ->
                 IF IsNumLiteral(id1) THEN Literal(SetString(id1.text))
                 ELSE IF IsIdent(id1)
                 THEN IF id1 \in DOMAIN s.localVars
                      THEN SetMType(s, n, s.localVars[id1])
                      ELSE Fail(s, ErrUnrecognizedIdent)
                 ELSE IF id1 = IDFalse
                 THEN SetMType(SetConstValue(s, n, zero), n, TypeExprBool)
                 ELSE IF id1 = IDTrue
                 THEN SetMType(SetConstValue(s, n, one), n, TypeExprBool)
                 ELSE Fail(s, ErrUnrecognizedOther)
          [] id0 = IDOpenParen ->
                 IF isInSrcReadU8(lhs) /\ Suspendible(ast[n].flags) /\ Len(ast[n].list0) = 0
                 THEN ReadU8(tcheckExpr(s, lhs, depth))
                 ELSE IF isLowBits(lhs) /\ ~Impure(ast[n].flags) /\ Len(ast[n].list0) = 1
                 THEN LowBits(tcheckExpr(s, foo, depth))
                 ELSE Fail(s, ErrUnrecognizedOther)
          [] id0 = IDDot -> tcheckDot(s, n, depth)
          [] OTHER -> Fail(s, ErrUnrecognizedOther)

\* for ; lTyp.PackageOrDecorator().Key() == t.KeyPtr; lTyp = lTyp.Inner() {}
RECURSIVE StripPtr(_)
StripPtr(typ) == IF ast[typ].id0 = IDPtr THEN StripPtr(ast[typ].rhs) ELSE typ

\* The struct registry q.c.structs: no struct is registered.
structs == <<>>

\* The fields of struct st named id1, in order.
FieldsNamed(st, id1) ==
    SelectSeq(ast[st].list0, LAMBDA f : ast[f].id1 = id1)

tcheckDot(s, n, depth) ==
    LET lhs == ast[n].lhs
        Field(s1, fs) == IF fs # <<>> THEN SetMType(s1, n, ast[Head(fs)].lhs)
                         ELSE Fail(s1, ErrNoField)
        Struct(s1, st) == IF st = Nil THEN Fail(s1, ErrNoStruct)
                          ELSE Field(s1, FieldsNamed(st, ast[n].id1))
        Select(s1, lTyp, name) ==
            IF ast[lTyp].id0 # Zero THEN Fail(s1, ErrDotDecorator)
            ELSE CASE name = IDIn -> Struct(s1, ast[FuncNode].lhs)
                   [] name = IDOut -> Struct(s1, ast[FuncNode].rhs)
                   [] name = IDBuf1 -> SetMType(s1, n, TypeExprU8)
                   [] OTHER -> Struct(s1, IF name \in DOMAIN structs
                                          THEN structs[name] ELSE Nil)
        Stripped(s1, lTyp) == Select(s1, lTyp, ast[lTyp].id1)
        Checked(s1) == IF s1.err # NoError THEN s1
                       ELSE Stripped(s1, StripPtr(s1.mType[lhs]))
    IN  Checked(tcheckExpr(s, lhs, depth))

tcheckExprUnaryOp(s, n, depth) ==
    LET rhs == ast[n].rhs
        key == ast[n].id0.key
        Typed(s1, rTyp, cv) ==
            IF key \in {"+", "-"}
            THEN IF ~numeric(rTyp) THEN Fail(s1, ErrUnaryNotNumeric)
                 ELSE SetMType(IF cv = NilInt THEN s1
                               ELSE SetConstValue(s1, n, IF key = "-" THEN neg(cv[1])
                                                         ELSE cv[1]),
                               n, rTyp)
            ELSE IF key = "not"
            THEN IF ~Eq(rTyp, TypeExprBool) THEN Fail(s1, ErrUnaryNotBool)
                 ELSE SetMType(IF cv = NilInt THEN s1
                               ELSE SetConstValue(s1, n, btoi(cv[1] = zero)),
                               n, TypeExprBool)
            ELSE Fail(s1, ErrUnrecognizedUnary)
        Checked(s1) == IF s1.err # NoError THEN s1
                       ELSE Typed(s1, s1.mType[rhs], s1.constValue[rhs])
    IN  Checked(tcheckExpr(s, rhs, depth))

\* The operand checks of tcheckExprBinaryOp (its two switches): the error, or NoError.
BinaryOperandError(key, lTyp, rTyp) ==
    IF key \notin {"!=", "==", "and", "or"} /\ ~numeric(lTyp) THEN ErrBinaryNotNumeric
    ELSE IF key \notin {"!=", "==", "and", "or"} /\ ~numeric(rTyp) THEN ErrBinaryNotNumeric
    ELSE IF key \in {"and", "or"} /\ lTyp # TypeExprBool THEN ErrBinaryNotBool
    ELSE IF key \in {"and", "or"} /\ rTyp # TypeExprBool THEN ErrBinaryNotBool
    ELSE IF /\ key \notin {"<<", ">>"}
            /\ ~EqIgnoringRefinements(lTyp, rTyp)
            /\ lTyp # TypeExprIdeal /\ rTyp # TypeExprIdeal THEN ErrBinaryIncompatible
    ELSE IF key \in {"<<", ">>"} /\ lTyp = TypeExprIdeal /\ rTyp # TypeExprIdeal
    THEN ErrShiftIdeal
    ELSE NoError

\* tcheckExprBinaryOp from the point where the left operand has been checked
\* (s1) and its type read (lTyp).
tcheckExprBinaryOpRhs(s1, n, depth, lTyp) ==
    LET lhs == ast[n].lhs
        rhs == ast[n].rhs
        key == ast[n].id0.key
        Typed(s3, rTyp) ==
            IF key \in comparisonOps THEN SetMType(s3, n, TypeExprBool)
            ELSE IF lTyp # TypeExprIdeal THEN SetMType(s3, n, lTyp)
            ELSE SetMType(s3, n, rTyp)
        Folded(s3, rTyp) == IF s3.err # NoError THEN s3 ELSE Typed(s3, rTyp)
        Fold(s2, rTyp, l, r) ==
            Folded(IF l # NilInt /\ r # NilInt
                   THEN setConstValueBinaryOp(s2, n, l[1], r[1])
                   ELSE s2,
                   rTyp)
        Compared(s2, rTyp, e) ==
            IF e # NoError THEN Fail(s2, e)
            ELSE Fold(s2, rTyp, s2.constValue[lhs], s2.constValue[rhs])
        Compare(s2, rTyp) == Compared(s2, rTyp, BinaryOperandError(key, lTyp, rTyp))
        Checked(s2) == IF s2.err # NoError THEN s2 ELSE Compare(s2, s2.mType[rhs])
        Converted(s2) == IF s2.err # NoError THEN s2
                         ELSE IF numeric(lTyp) /\ IsNumType(rhs) THEN SetMType(s2, n, rhs)
                         ELSE Fail(s2, ErrCannotConvert)
    IN  IF key = "as" THEN Converted(tcheckTypeExpr(s1, rhs, 0))
        ELSE Checked(tcheckExpr(s1, rhs, depth))

\* Faulty variant: the node gets the left operand's type before the right one is checked.
tcheckExprBinaryOpEarlyMType(s, n, depth) ==
    LET lhs == ast[n].lhs
        Checked(s1) ==
            IF s1.err # NoError THEN s1
            ELSE tcheckExprBinaryOpRhs(SetMType(s1, n, s1.mType[lhs]), n, depth,
                                       s1.mType[lhs])
    IN  Checked(tcheckExpr(s, lhs, depth))

tcheckExprBinaryOp(s, n, depth) ==
    LET lhs == ast[n].lhs
        Checked(s1) == IF s1.err # NoError THEN s1
                       ELSE tcheckExprBinaryOpRhs(s1, n, depth, s1.mType[lhs])
    IN  Checked(tcheckExpr(s, lhs, depth))

\* for _, b := range n.Bounds() { ... }
tcheckBounds(s, bs, i) ==
    IF i > Len(bs) THEN s
    ELSE IF bs[i] = Nil THEN tcheckBounds(s, bs, i + 1)
    ELSE LET Checked(s1) ==
                 IF s1.err # NoError THEN s1
                 ELSE IF s1.constValue[bs[i]] = NilInt THEN Fail(s1, ErrNotConstant)
                 ELSE tcheckBounds(s1, bs, i + 1)
         IN  Checked(tcheckExpr(s, bs[i], 0))

tcheckTypeExpr(s, n, depth) ==
    IF depth > MaxTypeExprDepth THEN Fail(s, ErrTypeTooDeep)
    ELSE LET d == depth + 1
             id0 == ast[n].id0
             name == ast[n].id1
             aLen == ast[n].lhs
             Length(s2) == IF s2.err # NoError THEN s2
                           ELSE IF s2.constValue[aLen] = NilInt
                           THEN Fail(s2, ErrNotConstant)
                           ELSE tcheckTypeExpr(s2, ast[n].rhs, d)
             Checked(s1) == IF s1.err # NoError THEN s1 ELSE MarkTypeChecked(s1, n)
         IN  Checked(CASE id0 = Zero ->
                             IF IDIsNumType(name) THEN tcheckBounds(s, Bounds(n), 1)
                             ELSE IF name = IDBool \/ name = IDBuf1 THEN s
                             ELSE Fail(s, ErrNotAType)
                       [] id0 = IDPtr -> tcheckTypeExpr(s, ast[n].rhs, d)
                       [] id0 = IDOpenBracket -> Length(tcheckExpr(s, aLen, 0))
                       [] OTHER -> Fail(s, ErrUnrecognizedTypeExpr))

tcheckVars(s, n) ==
    IF ast[n].kind = "KVar"
    THEN LET name == ast[n].id1
             xType == ast[n].lhs
             Checked(s1) == IF s1.err # NoError THEN s1
                            ELSE [s1 EXCEPT !.localVars = (name :> xType) @@ @]
         IN  IF name \in DOMAIN s.localVars THEN Fail(s, ErrDuplicateVar)
             ELSE Checked(tcheckTypeExpr(s, xType, 0))
    ELSE tcheckVarsList(s, SubLists(n)[1] \o SubLists(n)[2], 1)

\* for _, l := range n.Raw().SubLists() { for _, o := range l { tcheckVars(o) } }
tcheckVarsList(s, l, i) ==
    IF i > Len(l) THEN s
    ELSE LET Checked(s1) == IF s1.err # NoError THEN s1
                            ELSE tcheckVarsList(s1, l, i + 1)
         IN  Checked(tcheckVars(s, l[i]))

\* for _, o := range n.Args() { tcheckExpr(o.Arg().Value(), 0); o.SetTypeChecked() }
RECURSIVE tcheckAssertArgs(_, _, _)
tcheckAssertArgs(s, args, i) ==
    IF i > Len(args) THEN s
    ELSE LET Checked(s1) ==
                 IF s1.err # NoError THEN s1
                 ELSE tcheckAssertArgs(MarkTypeChecked(s1, args[i]), args, i + 1)
         IN  Checked(tcheckExpr(s, ast[args[i]].rhs, 0))

tcheckAssert(s, n) ==
    LET cond == ast[n].rhs
        Checked(s1) ==
            IF s1.err # NoError THEN s1
            ELSE IF ~Eq(s1.mType[cond], TypeExprBool) THEN Fail(s1, ErrAssertNotBool)
            ELSE tcheckAssertArgs(s1, ast[n].list0, 1)
    IN  Checked(tcheckExpr(s, cond, 0))

\* Faulty variant: an Ideal value is assignable to an assignee of any type.
tcheckAssignAnyIdeal(s, n) ==
    LET lhs == ast[n].lhs
        rhs == ast[n].rhs
        op == ast[n].id0
        Typed(s2, lTyp, rTyp) ==
            IF op = IDEq
            THEN IF \/ rTyp = TypeExprIdeal
                    \/ EqIgnoringRefinements(lTyp, rTyp)
                 THEN s2
                 ELSE Fail(s2, ErrCannotAssign)
            ELSE IF ~IsNumType(lTyp) THEN Fail(s2, ErrAssigneeNotNumeric)
            ELSE IF op \in {IDShiftLEq, IDShiftREq}
            THEN IF IsNumType(rTyp) THEN s2 ELSE Fail(s2, ErrShiftNotNumeric)
            ELSE IF rTyp = TypeExprIdeal \/ EqIgnoringRefinements(lTyp, rTyp) THEN s2
            ELSE Fail(s2, ErrAssignIncompatible)
        CheckedRhs(s2) == IF s2.err # NoError THEN s2
                          ELSE Typed(s2, s2.mType[lhs], s2.mType[rhs])
        CheckedLhs(s1) == IF s1.err # NoError THEN s1
                          ELSE CheckedRhs(tcheckExpr(s1, rhs, 0))
    IN  CheckedLhs(tcheckExpr(s, lhs, 0))

tcheckAssign(s, n) ==
    LET lhs == ast[n].lhs
        rhs == ast[n].rhs
        op == ast[n].id0
        Typed(s2, lTyp, rTyp) ==
            IF op = IDEq
            THEN IF \/ rTyp = TypeExprIdeal /\ IsNumType(lTyp)
                    \/ EqIgnoringRefinements(lTyp, rTyp)
                 THEN s2
                 ELSE Fail(s2, ErrCannotAssign)
            ELSE IF ~IsNumType(lTyp) THEN Fail(s2, ErrAssigneeNotNumeric)
            ELSE IF op \in {IDShiftLEq, IDShiftREq}
            THEN IF IsNumType(rTyp) THEN s2 ELSE Fail(s2, ErrShiftNotNumeric)
            ELSE IF rTyp = TypeExprIdeal \/ EqIgnoringRefinements(lTyp, rTyp) THEN s2
            ELSE Fail(s2, ErrAssignIncompatible)
        CheckedRhs(s2) == IF s2.err # NoError THEN s2
                          ELSE Typed(s2, s2.mType[lhs], s2.mType[rhs])
        CheckedLhs(s1) == IF s1.err # NoError THEN s1
                          ELSE CheckedRhs(tcheckExpr(s1, rhs, 0))
    IN  CheckedLhs(tcheckExpr(s, lhs, 0))

\* The index in jumpTargets of the innermost While labelled id, searching from
\* index i downwards; 0 if there is none.
RECURSIVE FindLabel(_, _, _)
FindLabel(stack, i, id) ==
    IF i < 1 THEN 0
    ELSE IF ast[stack[i]].id1 = id THEN i
    ELSE FindLabel(stack, i - 1, id)

\* Faulty variant: the search runs from the outermost While inwards.
ResolveJumpOutermost(stack, id) ==
    IF id # Zero
    THEN LET m == {i \in DOMAIN stack : ast[stack[i]].id1 = id}
         IN  IF m = {} THEN Nil ELSE stack[CHOOSE i \in m : \A j \in m : i <= j]
    ELSE IF Len(stack) > 0 THEN stack[Len(stack)]
    ELSE Nil

\* The jumpTarget that the KJump case computes: a While, or Nil.
ResolveJump(stack, id) ==
    IF id # Zero
    THEN LET Found(i) == IF i = 0 THEN Nil ELSE stack[i]
         IN  Found(FindLabel(stack, Len(stack), id))
    ELSE IF Len(stack) > 0 THEN stack[Len(stack)]
    ELSE Nil

SetHasBreak(s, w) == [s EXCEPT !.hasBreak[w] = TRUE]

SetHasContinue(s, w) == [s EXCEPT !.hasContinue[w] = TRUE]

SetJumpTarget(s, n, w) == [s EXCEPT !.jumpTarget[n] = w]

\* Faulty variant: the break and continue bits are swapped.
tcheckJumpSwapped(s, n) ==
    LET Resolved(jt) ==
            IF jt = Nil THEN Fail(s, ErrNoJumpTarget)
            ELSE IF ast[n].id0 = IDBreak THEN SetJumpTarget(SetHasContinue(s, jt), n, jt)
            ELSE SetJumpTarget(SetHasBreak(s, jt), n, jt)
    IN  Resolved(ResolveJump(s.jumpTargets, ast[n].id1))

tcheckJump(s, n) ==
    LET Resolved(jt) ==
            IF jt = Nil THEN Fail(s, ErrNoJumpTarget)
            ELSE IF ast[n].id0 = IDBreak THEN SetJumpTarget(SetHasBreak(s, jt), n, jt)
            ELSE SetJumpTarget(SetHasContinue(s, jt), n, jt)
    IN  Resolved(ResolveJump(s.jumpTargets, ast[n].id1))

\* q.jumpTargets = append(q.jumpTargets, n)
PushJumpTarget(s, n) == [s EXCEPT !.jumpTargets = Append(@, n)]

\* Faulty variant: the pop is not deferred, an error return skips it.
PopJumpTargetOnSuccess(s) ==
    IF s.err # NoError THEN s
    ELSE [s EXCEPT !.jumpTargets = SubSeq(@, 1, Len(@) - 1)]

\* The deferred function of the KWhile case: it runs on every return.
PopJumpTarget(s) == [s EXCEPT !.jumpTargets = SubSeq(@, 1, Len(@) - 1)]

\* for _, o := range n.Asserts() { tcheckAssert(o.Assert()); o.SetTypeChecked() }
RECURSIVE tcheckWhileAsserts(_, _, _)
tcheckWhileAsserts(s, as, i) ==
    IF i > Len(as) THEN s
    ELSE LET Checked(s1) ==
                 IF s1.err # NoError THEN s1
                 ELSE tcheckWhileAsserts(MarkTypeChecked(s1, as[i]), as, i + 1)
         IN  Checked(tcheckAssert(s, as[i]))

\* for _, o := range body { tcheckStatement(o) }
tcheckStatements(s, body, i) ==
    IF i > Len(body) THEN s
    ELSE LET Checked(s1) == IF s1.err # NoError THEN s1
                            ELSE tcheckStatements(s1, body, i + 1)
         IN  Checked(tcheckStatement(s, body[i]))

\* One iteration of the first loop of the KIf case: the condition and the
\* two bodies of chain node n.
tcheckIfClause(s, n) ==
    LET cond == ast[n].lhs
        IfTrue(s2) == IF s2.err # NoError THEN s2
                      ELSE tcheckStatements(s2, ast[n].list1, 1)
        Checked(s1) ==
            IF s1.err # NoError THEN s1
            ELSE IF ~Eq(s1.mType[cond], TypeExprBool) THEN Fail(s1, ErrIfNotBool)
            ELSE IfTrue(tcheckStatements(s1, ast[n].list0, 1))
    IN  Checked(tcheckExpr(s, cond, 0))

\* The first loop of the KIf case, from chain node n on.
tcheckIfChain(s, n) ==
    IF n = Nil THEN s
    ELSE LET Clause(s3) == IF s3.err # NoError THEN s3 ELSE tcheckIfChain(s3, ast[n].rhs)
         IN  Clause(tcheckIfClause(s, n))

\* The second loop of the KIf case.
RECURSIVE MarkIfChain(_, _)
MarkIfChain(s, n) ==
    IF n = Nil THEN s ELSE MarkIfChain(MarkTypeChecked(s, n), ast[n].rhs)

\* Faulty variant: one pass, every chain node is marked as soon as its clause is checked.
RECURSIVE tcheckIfOnePass(_, _)
tcheckIfOnePass(s, n) ==
    IF n = Nil THEN s
    ELSE LET Clause(s3) == IF s3.err # NoError THEN s3
                           ELSE tcheckIfOnePass(MarkTypeChecked(s3, n), ast[n].rhs)
         IN  Clause(tcheckIfClause(s, n))

tcheckIf(s, n) ==
    LET Checked(s1) == IF s1.err # NoError THEN s1 ELSE MarkIfChain(s1, n)
    IN  Checked(tcheckIfChain(s, n))

tcheckWhile(s, n) ==
    LET cond == ast[n].lhs
        Asserted(s2) ==
            IF s2.err # NoError THEN s2
            ELSE PopJumpTarget(tcheckStatements(PushJumpTarget(s2, n), ast[n].list1, 1))
        Checked(s1) ==
            IF s1.err # NoError THEN s1
            ELSE IF ~Eq(s1.mType[cond], TypeExprBool) THEN Fail(s1, ErrWhileNotBool)
            ELSE Asserted(tcheckWhileAsserts(s1, ast[n].list0, 1))
    IN  Checked(tcheckExpr(s, cond, 0))

tcheckReturn(s, n) ==
    IF ast[n].lhs # Nil THEN tcheckExpr(s, ast[n].lhs, 0) ELSE s

tcheckVar(s, n) ==
    IF ~TypeChecked(s.flags[ast[n].lhs]) THEN Fail(s, ErrUncheckedTypeExpr)
    ELSE IF ast[n].rhs # Nil THEN tcheckExpr(s, ast[n].rhs, 0)
    ELSE s

\* The entry of stmtCalls for one call of tcheckStatement: s0 on entry, s1 on return.
StmtCall(s0, s1, n) ==
    [n |-> n, err |-> s1.err,
     stackIn |-> s0.jumpTargets, stackOut |-> s1.jumpTargets,
     flags0 |-> s0.flags, flags1 |-> s1.flags,
     mType0 |-> s0.mType, mType1 |-> s1.mType,
     constValue0 |-> s0.constValue, constValue1 |-> s1.constValue,
     hasBreak0 |-> s0.hasBreak, hasBreak1 |-> s1.hasBreak,
     hasContinue0 |-> s0.hasContinue, hasContinue1 |-> s1.hasContinue,
     jumpTarget1 |-> s1.jumpTarget[n]]

tcheckStatementBody(s, n) ==
    LET kind == ast[n].kind
        Checked(s1) ==
            IF s1.err # NoError \/ kind = "KIf" THEN s1 ELSE MarkTypeChecked(s1, n)
    IN  Checked(CASE kind = "KAssert" -> tcheckAssert(s, n)
                  [] kind = "KAssign" -> tcheckAssign(s, n)
                  [] kind = "KIf" -> tcheckIf(s, n)
                  [] kind = "KJump" -> tcheckJump(s, n)
                  [] kind = "KReturn" -> tcheckReturn(s, n)
                  [] kind = "KVar" -> tcheckVar(s, n)
                  [] kind = "KWhile" -> tcheckWhile(s, n)
                  [] OTHER -> Fail(s, ErrUnrecognizedKind))

tcheckStatement(s, n) ==
    LET Returned(s1) == [s1 EXCEPT !.stmtCalls = Append(@, StmtCall(s, s1, n))]
    IN  Returned(tcheckStatementBody(s, n))

(***************************************************************************)
(* Checking a function: the variable pre-pass over every statement of the  *)
(* body, then the statement check of every statement, stopping at the      *)
(* first error; and the checker run again over the annotated AST.          *)
(***************************************************************************)
Body == ast[FuncNode].list1

\* No Walk has been made: the result of walking the nil node.
NoWalk == [root |-> Nil, bad |-> {}, visited |-> <<>>, err |-> Nil]

\* No node has been constructed.
NoNode == [ctor |-> "none", node |-> RawNode("KInvalid", 0, Zero, Zero, Nil, Nil, Nil, <<>>, <<>>)]

\* The per-function state of a fresh checker.
NewLocalVars == (IDIn :> TypeExprIn)

Init ==
    /\ ast \in Programs
    /\ pc = "vars"
    /\ idx = 1
    /\ run = 1
    /\ flags = [n \in DOMAIN ast |-> ast[n].flags]
    /\ mType = [n \in DOMAIN ast |-> Nil]
    /\ constValue = [n \in DOMAIN ast |-> NilInt]
    /\ jumpTarget = [n \in DOMAIN ast |-> Nil]
    /\ hasBreak = [n \in DOMAIN ast |-> FALSE]
    /\ hasContinue = [n \in DOMAIN ast |-> FALSE]
    /\ localVars = NewLocalVars
    /\ jumpTargets = <<>>
    /\ err = NoError
    /\ exprCalls = <<>>
    /\ stmtCalls = <<>>
    /\ walk = NoWalk
    /\ made = NoNode

\* The checker's state on entry to a top-level call.
Cur ==
    [flags |-> flags, mType |-> mType, constValue |-> constValue,
     jumpTarget |-> jumpTarget, hasBreak |-> hasBreak, hasContinue |-> hasContinue,
     localVars |-> localVars, jumpTargets |-> jumpTargets, err |-> NoError,
     exprCalls |-> <<>>, stmtCalls |-> <<>>]

Commit(s) ==
    /\ flags' = s.flags
    /\ mType' = s.mType
    /\ constValue' = s.constValue
    /\ jumpTarget' = s.jumpTarget
    /\ hasBreak' = s.hasBreak
    /\ hasContinue' = s.hasContinue
    /\ localVars' = s.localVars
    /\ jumpTargets' = s.jumpTargets
    /\ err' = s.err
    /\ exprCalls' = s.exprCalls
    /\ stmtCalls' = s.stmtCalls

CheckVars ==
    /\ pc = "vars"
    /\ LET s == tcheckVars(Cur, Body[idx])
       IN  /\ Commit(s)
           /\ pc' = IF s.err # NoError THEN "failedVars"
                    ELSE IF idx = Len(Body) THEN "stmts" ELSE "vars"
           /\ idx' = IF s.err = NoError /\ idx < Len(Body) THEN idx + 1 ELSE 1
    /\ UNCHANGED <<ast, run, walk, made>>

CheckStatement ==
    /\ pc = "stmts"
    /\ LET s == tcheckStatement(Cur, Body[idx])
       IN  /\ Commit(s)
           /\ pc' = IF s.err # NoError THEN "failedStmts"
                    ELSE IF idx = Len(Body) THEN "done" ELSE "stmts"
           /\ idx' = IF s.err = NoError /\ idx < Len(Body) THEN idx + 1 ELSE 1
    /\ UNCHANGED <<ast, run, walk, made>>

Recheck ==
    /\ pc \in {"done", "failedVars", "failedStmts"}
    /\ run < MaxRuns
    /\ run' = run + 1
    /\ pc' = "vars"
    /\ idx' = 1
    /\ localVars' = NewLocalVars
    /\ jumpTargets' = <<>>
    /\ err' = NoError
    /\ exprCalls' = <<>>
    /\ stmtCalls' = <<>>
    /\ UNCHANGED <<ast, flags, mType, constValue, jumpTarget, hasBreak, hasContinue,
                   walk, made>>

Next == CheckVars \/ CheckStatement \/ Recheck

Spec == Init /\ [][Next]_vars

(***************************************************************************)
(* Node.Walk.  The visitor f is called with the record w of the walk made  *)
(* so far; it returns an error on the nodes of w.bad, and the error it      *)
(* returns on node n is n.                                                 *)
(***************************************************************************)
RECURSIVE Walk(_, _)
RECURSIVE WalkSeq(_, _, _)
RECURSIVE WalkLists(_, _, _)

\* err := f(n)
Visit(w, n) ==
    [w EXCEPT !.visited = Append(@, n), !.err = IF n \in w.bad THEN n ELSE Nil]

\* for _, o := range l { if err := o.Walk(f); err != nil { return err } }
WalkSeq(w, l, i) ==
    IF i > Len(l) THEN w
    ELSE LET Walked(w1) == IF w1.err # Nil THEN w1 ELSE WalkSeq(w1, l, i + 1)
         IN  Walked(Walk(w, l[i]))

\* for _, l := range n.Raw().SubLists() { ... }
WalkLists(w, ls, j) ==
    IF j > Len(ls) THEN w
    ELSE LET Walked(w1) == IF w1.err # Nil THEN w1 ELSE WalkLists(w1, ls, j + 1)
         IN  Walked(WalkSeq(w, ls[j], 1))

\* Faulty variant: the lists are walked before the sub-nodes.
WalkListsFirst(w, n) ==
    IF n = Nil THEN w
    ELSE LET Listed(w2) == IF w2.err # Nil THEN w2 ELSE WalkSeq(w2, SubNodes(n), 1)
             Called(w1) == IF w1.err # Nil THEN w1
                           ELSE Listed(WalkLists(w1, SubLists(n), 1))
         IN  Called(Visit(w, n))

Walk(w, n) ==
    IF n = Nil THEN w
    ELSE LET SubWalked(w2) == IF w2.err # Nil THEN w2 ELSE WalkLists(w2, SubLists(n), 1)
             Called(w1) == IF w1.err # Nil THEN w1
                           ELSE SubWalked(WalkSeq(w1, SubNodes(n), 1))
         IN  Called(Visit(w, n))

\* The sets of nodes a visitor fails on.
BadSets == {{}} \cup {{a, b} : a \in Nodes, b \in Nodes}

\* n.Walk(f), for any node n of the AST or the nil node; one walk is followed.
WalkNode ==
    /\ walk = NoWalk
    /\ \E root \in Nodes \cup {Nil}, bad \in BadSets :
           walk' = Walk([root |-> root, bad |-> bad, visited |-> <<>>, err |-> Nil], root)
    /\ UNCHANGED <<ast, pc, idx, run, flags, mType, constValue, jumpTarget, hasBreak,
                   hasContinue, localVars, jumpTargets, err, exprCalls, stmtCalls, made>>

WalkInit == Init /\ ast \in WalkPrograms

WalkSpec == WalkInit /\ [][WalkNode]_vars

(***************************************************************************)
(* The node constructors, applied to arguments of every shape: each value  *)
(* of the four flag bits, IDs, nil and non-nil children, empty and         *)
(* non-empty lists.                                                        *)
(***************************************************************************)
FlagValues == 0..(2 * FlagsTypeChecked - 1)

IDValues == {Zero, Ident("x"), IDAssert}

NodeValues == {Nil, TypeExprU8}

ListValues == {<<>>, <<TypeExprU8, TypeExprBool>>}

Constructed(ctor, node) == [ctor |-> ctor, node |-> node]

ConstructorCalls ==
    {Constructed("NewExpr", NewExpr(fl, op, id, l, m, r, args)) :
        fl \in FlagValues, op \in {Zero, BinaryOp("+")}, id \in {Zero, Ident("x")},
        l \in NodeValues, m \in NodeValues, r \in NodeValues, args \in ListValues}
      \cup {Constructed("NewAssert", NewAssert(k, c, id, args)) :
                k \in IDValues, c \in NodeValues, id \in IDValues, args \in ListValues}
      \cup {Constructed("NewArg", NewArg(id, v)) : id \in IDValues, v \in NodeValues}
      \cup {Constructed("NewAssign", NewAssign(op, l, r)) :
                op \in AssignKeys, l \in NodeValues, r \in NodeValues}
      \cup {Constructed("NewVar", NewVar(id, typ, v)) :
                id \in IDValues, typ \in NodeValues, v \in NodeValues}
      \cup {Constructed("NewField", NewField(id, typ, v)) :
                id \in IDValues, typ \in NodeValues, v \in NodeValues}
      \cup {Constructed("NewWhile", NewWhile(id, c, as, body)) :
                id \in IDValues, c \in NodeValues, as \in ListValues, body \in ListValues}
      \cup {Constructed("NewIf", NewIf(c, e, bt, bf)) :
                c \in NodeValues, e \in NodeValues, bt \in ListValues, bf \in ListValues}
      \cup {Constructed("NewReturn", NewReturn(v)) : v \in NodeValues}
      \cup {Constructed("NewJump", NewJump(k, id)) :
                k \in {IDBreak, IDContinue}, id \in IDValues}
      \cup {Constructed("NewTypeExpr", NewTypeExpr(pd, id, l, m, r)) :
                pd \in {Zero, IDPtr, IDOpenBracket}, id \in {Zero, IDU8, IDBool},
                l \in NodeValues, m \in NodeValues, r \in NodeValues}
      \cup {Constructed("NewFunc", NewFunc(fl, rc, id, in, out, as, body)) :
                fl \in FlagValues, rc \in {Zero, Ident("x")}, id \in {Ident("f")},
                in \in NodeValues, out \in NodeValues, as \in ListValues,
                body \in ListValues}
      \cup {Constructed("NewStruct", NewStruct(fl, id, fields)) :
                fl \in FlagValues, id \in IDValues, fields \in ListValues}
      \cup {Constructed("NewUse", NewUse(id)) : id \in IDValues}
      \cup {Constructed("NewFile", NewFile(decls)) : decls \in ListValues}

\* One call of a constructor; one call is followed.
Construct ==
    /\ made = NoNode
    /\ \E c \in ConstructorCalls : made' = c
    /\ UNCHANGED <<ast, pc, idx, run, flags, mType, constValue, jumpTarget, hasBreak,
                   hasContinue, localVars, jumpTargets, err, exprCalls, stmtCalls, walk>>

NewSpec == WalkInit /\ [][Construct]_vars

(***************************************************************************)
(* Tree relations used to state the properties.                            *)
(***************************************************************************)
Range(q) == {q[i] : i \in DOMAIN q}

Children(n) == ({ast[n].lhs, ast[n].mhs, ast[n].rhs} \ {Nil})
                   \cup Range(ast[n].list0) \cup Range(ast[n].list1)

RECURSIVE Descendants(_)
Descendants(n) == {n} \cup UNION {Descendants(c) : c \in Children(n)}

\* The nodes inside the body of While w.
InBody(w) == UNION {Descendants(o) : o \in Range(ast[w].list1)}

\* The nodes of the function body.
BodyNodes == UNION {Descendants(o) : o \in Range(Body)}

NodesOfKind(k) == {n \in BodyNodes : ast[n].kind = k}

\* The If nodes of the else-if chain headed by n.
RECURSIVE IfChain(_)
IfChain(n) == IF n = Nil THEN {} ELSE {n} \cup IfChain(ast[n].rhs)

Calls(q) == Range(q)

JumpCalls == {c \in Calls(stmtCalls) : ast[c.n].kind = "KJump"}

\* The positions of the stack a jump labelled id may resolve to.
Matching(stack, id) ==
    {i \in DOMAIN stack : id = Zero \/ ast[stack[i]].id1 = id}

Max(S) == CHOOSE x \in S : \A y \in S : y <= x

(***************************************************************************)
(* C1.  A Jump resolves to the innermost While on the jumpTargets stack    *)
(* that carries its label, or to the top of the stack when it has no       *)
(* label; when there is no such While the check fails with the "no         *)
(* matching while statement" error and no While is modified.               *)
(***************************************************************************)
C1_JumpResolvesInnermost ==
    \A c \in JumpCalls :
        LET m == Matching(c.stackIn, ast[c.n].id1)
        IN  IF m # {}
            THEN /\ c.err = NoError
                 /\ c.jumpTarget1 = c.stackIn[Max(m)]
            ELSE /\ c.err = ErrNoJumpTarget
                 /\ c.hasBreak1 = c.hasBreak0
                 /\ c.hasContinue1 = c.hasContinue0
                 /\ c.flags1 = c.flags0

\* A labelled jump under two Whiles that both carry its label has resolved.
C1_Witness ==
    \E c \in JumpCalls :
        /\ ast[c.n].id1 # Zero
        /\ Len(c.stackIn) >= 2
        /\ ast[c.stackIn[1]].id1 = ast[c.n].id1
        /\ ast[c.stackIn[2]].id1 = ast[c.n].id1
        /\ c.err = NoError

(***************************************************************************)
(* C2.  After a function body has been checked successfully, every Jump's  *)
(* recorded target is a While whose body holds the Jump, and that While    *)
(* has has_break set for a break and has_continue set for a continue.      *)
(***************************************************************************)
C2_JumpTargetIsAncestor ==
    pc = "done" =>
        \A j \in NodesOfKind("KJump") :
            LET w == jumpTarget[j]
            IN  /\ w # Nil
                /\ ast[w].kind = "KWhile"
                /\ j \in InBody(w)
                /\ ast[j].id0 = IDBreak => hasBreak[w]
                /\ ast[j].id0 = IDContinue => hasContinue[w]

\* A successfully checked body has a Jump that resolved past an inner While.
C2_Witness ==
    /\ pc = "done"
    /\ \E j \in NodesOfKind("KJump"), w2 \in NodesOfKind("KWhile") :
          /\ jumpTarget[j] # Nil
          /\ j \in InBody(w2)
          /\ w2 \in InBody(jumpTarget[j])

(***************************************************************************)
(* C3.  Every call of tcheckStatement, nested or not, failing or not,      *)
(* returns with the jumpTargets stack it was entered with; the stack is    *)
(* empty whenever no statement is being checked.                           *)
(***************************************************************************)
C3_JumpTargetsRestored ==
    /\ \A c \in Calls(stmtCalls) : c.stackOut = c.stackIn
    /\ jumpTargets = <<>>

\* A While nested in another While has failed in its body.
C3_Witness ==
    \E c \in Calls(stmtCalls), b \in Calls(stmtCalls) :
        /\ ast[c.n].kind = "KWhile"
        /\ c.stackIn # <<>>
        /\ c.err # NoError
        /\ b.err # NoError
        /\ b.stackIn = Append(c.stackIn, c.n)

(***************************************************************************)
(* C4.  Checking an If is all-or-nothing on the If nodes of its else-if    *)
(* chain: on success every chain node is TypeChecked, on failure the call  *)
(* has marked none of them.                                                *)
(***************************************************************************)
C4_IfChainAllOrNothing ==
    \A c \in Calls(stmtCalls) :
        ast[c.n].kind = "KIf" =>
            IF c.err = NoError
            THEN \A m \in IfChain(c.n) : TypeChecked(c.flags1[m])
            ELSE \A m \in IfChain(c.n) : c.flags1[m] = c.flags0[m]

\* A chain has failed in a later clause after its first, unchecked clause passed.
C4_Witness ==
    \E c \in Calls(stmtCalls) :
        /\ ast[c.n].kind = "KIf"
        /\ c.err # NoError
        /\ ast[c.n].rhs # Nil
        /\ ~TypeChecked(c.flags0[c.n])
        /\ ~TypeChecked(c.flags0[ast[c.n].lhs])
        /\ TypeChecked(c.flags1[ast[c.n].lhs])

\* A chain of more than one clause has been checked successfully.
C4_WitnessSuccess ==
    \E c \in Calls(stmtCalls) :
        ast[c.n].kind = "KIf" /\ c.err = NoError /\ ast[c.n].rhs # Nil

ExprNodes == {n \in Nodes : ast[n].kind = "KExpr"}

(***************************************************************************)
(* C5.  Every Expr node with the TypeChecked flag has a non-nil m_type;    *)
(* and an Expr node on which tcheckExpr returned an error is not marked    *)
(* TypeChecked and got no m_type from that call.                           *)
(***************************************************************************)
C5_CheckedExprHasMType ==
    /\ \A n \in ExprNodes : TypeChecked(flags[n]) => mType[n] # Nil
    /\ \A c \in Calls(exprCalls) : c.err # NoError => ~c.tc1 /\ c.mt1 = c.mt0

\* A low_bits call has failed in its argument after its selector was annotated.
C5_Witness ==
    \E c \in Calls(exprCalls) :
        /\ c.err # NoError
        /\ ast[c.n].id0 = IDOpenParen
        /\ TypeChecked(flags[ast[c.n].lhs])
        /\ mType[ast[c.n].lhs] = TypeExprU8

(***************************************************************************)
(* C6.  TypeChecked is monotonic: no checker operation clears the flag of  *)
(* a node, and none changes the Impure, Suspendible or Public bit.         *)
(***************************************************************************)
C6_TypeCheckedMonotonic ==
    [][\A n \in DOMAIN flags :
          /\ TypeChecked(flags[n]) => TypeChecked(flags'[n])
          /\ flags'[n] % FlagsTypeChecked = flags[n] % FlagsTypeChecked]_vars

\* The checker runs again over an AST in which a suspendible call is TypeChecked.
C6_Witness ==
    /\ run = 2
    /\ pc = "done"
    /\ \E n \in ExprNodes : TypeChecked(flags[n]) /\ Suspendible(flags[n])

(***************************************************************************)
(* C7.  After the variable pre-pass has succeeded, every Var of the body,  *)
(* also in the bodies of else-if clauses and of Whiles, is registered in   *)
(* local_vars with its declared type and has a TypeChecked x_type, and no  *)
(* statement check fails with the "unchecked type expression" error.       *)
(***************************************************************************)
C7_AllVarsRegistered ==
    pc \in {"stmts", "done", "failedStmts"} =>
        /\ \A v \in NodesOfKind("KVar") :
              /\ ast[v].id1 \in DOMAIN localVars
              /\ localVars[ast[v].id1] = ast[v].lhs
              /\ TypeChecked(flags[ast[v].lhs])
        /\ err # ErrUncheckedTypeExpr

(***************************************************************************)
(* C8.  When two Vars of the body have the same name, the pre-pass fails   *)
(* with the duplicate-var error, the name stays registered with the type   *)
(* of its first declaration, and no later declaration of the name has had  *)
(* its x_type checked.                                                     *)
(***************************************************************************)
SameName(u, v) == u # v /\ ast[u].id1 = ast[v].id1

Duplicated == {v \in NodesOfKind("KVar") : \E u \in NodesOfKind("KVar") : SameName(u, v)}

FirstOf(v) == CHOOSE u \in NodesOfKind("KVar") :
                 /\ ast[u].id1 = ast[v].id1
                 /\ \A w \in NodesOfKind("KVar") : ast[w].id1 = ast[v].id1 => u <= w

C8_DuplicateVarRejected ==
    (pc # "vars" /\ Duplicated # {}) =>
        /\ pc = "failedVars"
        /\ err = ErrDuplicateVar
        /\ \A v \in Duplicated :
              /\ localVars[ast[v].id1] = ast[FirstOf(v)].lhs
              /\ v # FirstOf(v) => ~TypeChecked(flags[ast[v].lhs])

(***************************************************************************)
(* C9.  Checking an expression fails with the "expression recursion depth  *)
(* too large" error exactly when its nesting of Expr nodes exceeds         *)
(* MaxExprDepth, however the nesting is built: through operands,           *)
(* receivers, call arguments, or the bounds of a type on the right of a    *)
(* cast.                                                                   *)
(***************************************************************************)
\* How deep Expr nodes nest below node n (0: none below it).
RECURSIVE ExprNesting(_)
ExprNesting(n) ==
    LET sub == {ExprNesting(c) + (IF ast[c].kind = "KExpr" THEN 1 ELSE 0) : c \in Children(n)}
    IN  IF sub = {} THEN 0 ELSE Max(sub)

C9_DepthLimitEnforced ==
    \A c \in Calls(stmtCalls) :
        (ast[c.n].kind = "KReturn" /\ ast[c.n].lhs # Nil) =>
            (c.err = ErrTooDeep <=> ExprNesting(ast[c.n].lhs) > MaxExprDepth)

(***************************************************************************)
(* C10.  As claimed: a check that fails with the depth error leaves no new *)
(* annotation on any node, also not on sub-expressions checked before the  *)
(* too-deep branch.                                                        *)
(***************************************************************************)
C10_TooDeepLeavesNoAnnotations ==
    \A c \in Calls(stmtCalls) :
        c.err = ErrTooDeep =>
            /\ c.flags1 = c.flags0
            /\ c.mType1 = c.mType0
            /\ c.constValue1 = c.constValue0

(***************************************************************************)
(* C10, amended.  A check that fails with the depth error leaves no new    *)
(* annotation on the nodes on which it failed (the too-deep node and its   *)
(* ancestors in the expression): none of them gains TypeChecked, m_type or *)
(* const_value.  Sub-expressions checked before keep what they gained.     *)
(***************************************************************************)
C10_TooDeepNodesUnannotated ==
    \A c \in Calls(exprCalls) :
        c.err = ErrTooDeep => c.tc1 = c.tc0 /\ c.mt1 = c.mt0 /\ c.cv1 = c.cv0

\* A check has failed with the depth error after annotating a sub-expression.
C10_Witness ==
    \E c \in Calls(exprCalls), d \in Calls(exprCalls) :
        /\ c.err = ErrTooDeep
        /\ ast[c.n].id0.cat = "binary"
        /\ d.n = ast[c.n].lhs
        /\ d.err = NoError /\ d.tc1 /\ ~d.tc0 /\ d.cv1 # NilInt

(***************************************************************************)
(* The arithmetic the constant folder is specified by, on the integers.    *)
(***************************************************************************)
RECURSIVE Pow2(_)
Pow2(r) == IF r = 0 THEN 1 ELSE 2 * Pow2(r - 1)

Abs(x) == IF x < 0 THEN 0 - x ELSE x

\* Division rounding toward zero.
TruncDiv(l, r) ==
    IF (l < 0) = (r < 0) THEN Abs(l) \div Abs(r) ELSE 0 - (Abs(l) \div Abs(r))

\* l * 2^r
ExactShl(l, r) == IF l = 0 THEN 0 ELSE l * Pow2(r)

\* floor(l / 2^r)
ExactShr(l, r) == IF r > 30 THEN (IF l < 0 THEN -1 ELSE 0) ELSE l \div Pow2(r)

\* Bit i of x in two's complement.
BitOf(x, i) == (x \div Pow2(i)) % 2 = 1

BitOp(key, a, b) ==
    CASE key = "&" -> a /\ b
      [] key = "&^" -> a /\ ~b
      [] key = "|" -> a \/ b
      [] key = "^" -> a # b

\* The integer whose bits are the operator applied to the bits of l and r.
ExactBits(key, l, r) ==
    CHOOSE y \in -64..63 : \A i \in 0..6 : BitOf(y, i) = BitOp(key, BitOf(l, i), BitOf(r, i))

Exact(key, l, r) ==
    CASE key = "+" -> l + r
      [] key = "-" -> l - r
      [] key = "*" -> l * r
      [] key = "/" -> TruncDiv(l, r)
      [] key = "<<" -> ExactShl(l, r)
      [] key = ">>" -> ExactShr(l, r)
      [] key \in {"&", "&^", "|", "^"} -> ExactBits(key, l, r)
      [] key = "!=" -> IF l # r THEN 1 ELSE 0
      [] key = "<" -> IF l < r THEN 1 ELSE 0
      [] key = "<=" -> IF l <= r THEN 1 ELSE 0
      [] key = "==" -> IF l = r THEN 1 ELSE 0
      [] key = ">=" -> IF l >= r THEN 1 ELSE 0
      [] key = ">" -> IF l > r THEN 1 ELSE 0
      [] key = "and" -> IF l # 0 /\ r # 0 THEN 1 ELSE 0
      [] key = "or" -> IF l # 0 \/ r # 0 THEN 1 ELSE 0

\* The recorded calls of tcheckExpr on a binary operator, other than a cast,
\* whose two operands carry a const_value.
ConstBinaryCalls ==
    {c \in Calls(exprCalls) :
        /\ OpFlags(ast[c.n].id0) = "binary"
        /\ ast[c.n].id0.key \in BinaryKeys
        /\ constValue[ast[c.n].lhs] # NilInt
        /\ constValue[ast[c.n].rhs] # NilInt}

LeftValue(c) == constValue[ast[c.n].lhs][1]

RightValue(c) == constValue[ast[c.n].rhs][1]

(***************************************************************************)
(* C11.  A successfully checked binary operator whose two operands carry a *)
(* const_value gets as const_value the exact result of the operator on the *)
(* operands' values, division rounding toward zero.                        *)
(***************************************************************************)
C11_ConstFoldExact ==
    \A c \in ConstBinaryCalls :
        c.err = NoError =>
            c.cv1 = Big(Exact(ast[c.n].id0.key, LeftValue(c), RightValue(c)))

\* The recorded calls on a shift of two numeric constants.
ShiftCalls ==
    {c \in ConstBinaryCalls :
        /\ ast[c.n].id0.key \in {"<<", ">>"}
        /\ numeric(mType[ast[c.n].lhs])
        /\ numeric(mType[ast[c.n].rhs])}

(***************************************************************************)
(* C12.  A shift of two numeric constants fails with the "shift out of     *)
(* range" error exactly when the count is negative or above 0xFFFF; for a  *)
(* count in 0..0xFFFF it succeeds with const_value l * 2^r for << and      *)
(* floor(l / 2^r) for >>.                                                  *)
(***************************************************************************)
C12_ShiftRange ==
    \A c \in ShiftCalls :
        IF RightValue(c) < 0 \/ RightValue(c) > 65535
        THEN c.err = ErrShiftRange
        ELSE /\ c.err = NoError
             /\ c.cv1 = Big(IF ast[c.n].id0.key = "<<"
                            THEN ExactShl(LeftValue(c), RightValue(c))
                            ELSE ExactShr(LeftValue(c), RightValue(c)))

\* A negative constant has been shifted right by 0xFFFF.
C12_Witness ==
    \E c \in ShiftCalls :
        /\ ast[c.n].id0.key = ">>"
        /\ RightValue(c) = 65535
        /\ LeftValue(c) < 0
        /\ c.err = NoError
        /\ c.cv1 = Big(-1)

DivCalls ==
    {c \in Calls(exprCalls) :
        OpFlags(ast[c.n].id0) = "binary" /\ ast[c.n].id0.key = "/"}

\* The calls of tcheckExpr on the operands of the node of call c.
OperandCalls(c) ==
    {d \in Calls(exprCalls) : d.n \in {ast[c.n].lhs, ast[c.n].rhs}}

AssignCalls ==
    {c \in Calls(stmtCalls) :
        /\ ast[c.n].kind = "KAssign"
        /\ \E d \in Calls(exprCalls) : d.n = ast[c.n].lhs /\ d.err = NoError
        /\ \E d \in Calls(exprCalls) : d.n = ast[c.n].rhs /\ d.err = NoError}

\* The types of the two sides of the assignment of call c.
LType(c) == mType[ast[c.n].lhs]

RType(c) == mType[ast[c.n].rhs]

\* The type is the Ideal pseudo-type.
IsIdeal(typ) == ast[typ].id0 = Zero /\ ast[typ].id1 = IDDoubleZ

\* The type is a sized numeric type, refined or not.
IsSized(typ) == ast[typ].id0 = Zero /\ IDIsNumType(ast[typ].id1)

(***************************************************************************)
(* C14.  A plain assignment whose two sides type-check, of types L and R,  *)
(* is accepted if and only if R is Ideal and L is numeric, or L equals R   *)
(* ignoring refinements; otherwise it fails with the "cannot assign"       *)
(* error.  From Ideal to a sized numeric type it is accepted, between two  *)
(* distinct sized numeric types it is rejected.                            *)
(***************************************************************************)
C14_PlainAssign ==
    \A c \in AssignCalls :
        ast[c.n].id0 = IDEq =>
            LET L == LType(c)
                R == RType(c)
            IN  /\ c.err = NoError <=>
                       \/ IsIdeal(R) /\ (IsIdeal(L) \/ IsSized(L))
                       \/ EqIgnoringRefinements(L, R)
                /\ c.err \in {NoError, ErrCannotAssign}
                /\ IsIdeal(R) /\ IsSized(L) => c.err = NoError
                /\ IsSized(L) /\ IsSized(R) /\ ast[L].id1 # ast[R].id1
                   => c.err = ErrCannotAssign

\* "z = 1 + 2" and the like: an Ideal value has been assigned to a variable
\* of a refined type.
C14_Witness ==
    \E c \in AssignCalls :
        /\ ast[c.n].id0 = IDEq
        /\ c.err = NoError
        /\ IsIdeal(RType(c))
        /\ ast[LType(c)].lhs # Nil
        /\ TypeChecked(flags[c.n])

(***************************************************************************)
(* C18.  A compound assignment whose two sides type-check, of types L and  *)
(* R, fails with the "assignee does not have numeric type" error when L is *)
(* not a numeric type; with numeric L a shift-assign is accepted exactly   *)
(* when R is numeric, a sized type or Ideal, and any other compound        *)
(* assignment exactly when R is Ideal or L equals R ignoring refinements,  *)
(* failing with the "do not have compatible types" error otherwise.        *)
(***************************************************************************)
C18_CompoundAssign ==
    \A c \in AssignCalls :
        ast[c.n].id0 # IDEq =>
            LET L == LType(c)
                R == RType(c)
            IN  IF ~IsSized(L) THEN c.err = ErrAssigneeNotNumeric
                ELSE IF ast[c.n].id0 \in {IDShiftLEq, IDShiftREq}
                THEN c.err = NoError <=> (IsSized(R) \/ IsIdeal(R))
                ELSE /\ c.err = NoError <=> (IsIdeal(R) \/ EqIgnoringRefinements(L, R))
                     /\ c.err \in {NoError, ErrAssignIncompatible}

\* The type is bool.
IsBool(typ) == ast[typ].id0 = Zero /\ ast[typ].id1 = IDBool /\ ast[typ].rhs = Nil

\* The recorded calls of tcheckExpr on an "and" or "or" whose operands
\* type-checked.
AndOrCalls ==
    {c \in Calls(exprCalls) :
        /\ OpFlags(ast[c.n].id0) = "binary"
        /\ ast[c.n].id0.key \in {"and", "or"}
        /\ \E d \in Calls(exprCalls) : d.n = ast[c.n].lhs /\ d.err = NoError
        /\ \E d \in Calls(exprCalls) : d.n = ast[c.n].rhs /\ d.err = NoError}

(***************************************************************************)
(* C17.  An "and" / "or" whose operands type-check is accepted if and only *)
(* if both operands have type bool, a variable declared bool included, and *)
(* its type is then bool.                                                  *)
(***************************************************************************)
C17_AndOrBool ==
    \A c \in AndOrCalls :
        /\ c.err = NoError <=>
               IsBool(mType[ast[c.n].lhs]) /\ IsBool(mType[ast[c.n].rhs])
        /\ c.err = NoError => c.mt1 # Nil /\ IsBool(c.mt1)

(***************************************************************************)
(* The pre-order of the tree under a node: the node, then the trees under  *)
(* lhs, mhs and rhs, then those under the elements of list0, then list1.   *)
(***************************************************************************)
RECURSIVE PreOrder(_)
RECURSIVE PreOrderAll(_)
PreOrderAll(l) == IF l = <<>> THEN <<>> ELSE PreOrder(Head(l)) \o PreOrderAll(Tail(l))

PreOrder(n) ==
    IF n = Nil THEN <<>>
    ELSE <<n>> \o PreOrder(ast[n].lhs) \o PreOrder(ast[n].mhs) \o PreOrder(ast[n].rhs)
             \o PreOrderAll(ast[n].list0) \o PreOrderAll(ast[n].list1)

\* The positions of the pre-order of the walked tree at which the visitor fails.
Failing == {i \in DOMAIN PreOrder(walk.root) : PreOrder(walk.root)[i] \in walk.bad}

Min(S) == CHOOSE x \in S : \A y \in S : x <= y

(***************************************************************************)
(* C15.  Walk calls f on the nodes of the tree in pre-order (the node,     *)
(* then lhs, mhs, rhs, then list0, then list1), never on a nil node, up to *)
(* and including the first node on which f returns an error, and returns   *)
(* that error; it returns nil when f returns no error.                     *)
(***************************************************************************)
C15_WalkPreOrder ==
    /\ Nil \notin Range(walk.visited)
    /\ IF Failing = {}
       THEN walk.visited = PreOrder(walk.root) /\ walk.err = Nil
       ELSE /\ walk.visited = SubSeq(PreOrder(walk.root), 1, Min(Failing))
            /\ walk.err = PreOrder(walk.root)[Min(Failing)]

\* A walk from the Func node stopped in a list0 with two failing nodes: on the
\* first one of the pre-order, past nil slots, with nodes of a list1 unvisited.
C15_Witness ==
    /\ walk.root = FuncNode
    /\ Cardinality(Failing) = 2
    /\ walk.err = PreOrder(walk.root)[Min(Failing)]
    /\ \E m \in Range(walk.visited) : walk.err \in Range(ast[m].list0) /\ ast[m].list1 # <<>>
    /\ \E m \in Range(walk.visited) : ast[m].mhs = Nil /\ ast[m].rhs # Nil
    /\ Len(walk.visited) < Len(PreOrder(walk.root))

\* The kind of node each constructor is to return.
KindOf(ctor) ==
    CASE ctor = "NewExpr" -> "KExpr" [] ctor = "NewAssert" -> "KAssert"
      [] ctor = "NewArg" -> "KArg" [] ctor = "NewAssign" -> "KAssign"
      [] ctor = "NewVar" -> "KVar" [] ctor = "NewField" -> "KField"
      [] ctor = "NewWhile" -> "KWhile" [] ctor = "NewIf" -> "KIf"
      [] ctor = "NewReturn" -> "KReturn" [] ctor = "NewJump" -> "KJump"
      [] ctor = "NewTypeExpr" -> "KTypeExpr" [] ctor = "NewFunc" -> "KFunc"
      [] ctor = "NewStruct" -> "KStruct" [] ctor = "NewUse" -> "KUse"
      [] ctor = "NewFile" -> "KFile"

(***************************************************************************)
(* C16.  The node a constructor returns, whatever its arguments and the    *)
(* value of its flags argument, has the TypeChecked bit clear and the      *)
(* kind of the constructor.                                                *)
(***************************************************************************)
C16_ConstructedUnchecked ==
    made # NoNode =>
        /\ ~TypeChecked(made.node.flags)
        /\ made.node.kind = KindOf(made.ctor)
====
